---- MODULE Spec2Model ----
(***************************************************************************)
(* Resource Dispatcher: the charm (src/src/charm.py) and its relation      *)
(* library (src/lib/charms/resource_dispatcher/v0/resource_dispatcher.py). *)
(*                                                                         *)
(* A manifest is the parsed document [metadata |-> [name |-> n], data |-> d]*)
(* A JSON text is the sequence of its tokens, a container directory is a   *)
(* function from the paths of its files to their contents.                 *)
(***************************************************************************)
EXTENDS Naturals, Sequences, FiniteSets, TLC

VARIABLES
    leader,       \* self.unit.is_leader() of the dispatcher unit
    canConnect,   \* self.container.can_connect()
    status,       \* self.model.unit.status
    plan,         \* services of the container's Pebble plan
    relations,    \* relation id -> the relation and the remote application's databag
    fs,           \* the container: directory -> (path of a file -> content)
    deferred,     \* handlers of the events deferred by event.defer()
    hook,         \* the hook that ran last: its handler, the relation it broke, its outcome
    trace,        \* the steps the last hook or call took, in order
    call          \* the function called last on its own, with its arguments and its result

vars == <<leader, canConnect, status, plan, relations, fs, deferred, hook, trace, call>>

-----------------------------------------------------------------------------
(* Program constants *)

DISPATCHER_RESOURCES_PATH == "/var/lib/pebble/default/resources"
PODDEFAULTS_RELATION_NAME == "pod-defaults"
SECRETS_RELATION_NAME == "secrets"
SERVICEACCOUNTS_RELATION_NAME == "service-accounts"
ROLES_RELATION_NAME == "roles"
ROLEBINDINGS_RELATION_NAME == "role-bindings"
KUBERNETES_MANIFESTS_FIELD == "kubernetes_manifests"

\* Python's None
None == "<None>"

-----------------------------------------------------------------------------
(* Bounds of the model *)

\* longest list of manifests a producer sends
MaxItems == 2
\* most events kept deferred at a time
MaxDeferred == 1
\* most relations open at a time
MaxOpen == 2
\* most files in a directory before _sync_manifests is called on its own
MaxPrior == 2
\* longest list _manifests_valid is called on, on its own
MaxChecked == 4
\* most relations in the model when get_manifests is called on its own
MaxChannels == 2
\* most calls of get_manifests on the same relations
MaxCalls == 2

Names == {"a", "b"}
Contents == {"x", "y"}
Apps == {"p1", "p2"}

Doc(n, d) == [metadata |-> [name |-> n], data |-> d]
Docs == {Doc(n, d) : n \in Names, d \in Contents}

\* a document without metadata: KubernetesManifest takes any YAML document
NamelessDoc(d) == [data |-> d]
HasName(m) == "metadata" \in DOMAIN m

SeqsUpTo(S, n) == UNION {[1..k -> S] : k \in 0..n}

-----------------------------------------------------------------------------
(* Serialisations *)

\* a key of a mapping: Python keeps its type, int or str, next to its text
Key(type, repr) == [type |-> type, repr |-> repr]

\* a document with a labels mapping of one entry
LabelledDoc(n, d, key, value) ==
    [metadata |-> [name |-> n], data |-> d, labels |-> [key |-> key, value |-> value]]

\* yaml.dump writes a str key that reads as a number in quotes
YamlKey(key) == IF key.type = "str" THEN "'" \o key.repr \o "'" ELSE key.repr

\* yaml.dump of a manifest: block style, keys sorted
yaml_dump(manifest) ==
    "data: " \o manifest.data
        \o (IF "labels" \in DOMAIN manifest
            THEN "\nlabels:\n  " \o YamlKey(manifest.labels.key) \o ": " \o manifest.labels.value
            ELSE "")
        \o (IF HasName(manifest)
            THEN "\nmetadata:\n  name: " \o manifest.metadata.name \o "\n"
            ELSE "\n")

\* the token in the place of the name of an object that has no metadata
NoMetadata == "<no metadata>"

\* json.dumps of one manifest: the key of a mapping is written as a string,
\* whatever its type
JsonObject(m) ==
    <<"{", IF HasName(m) THEN m.metadata.name ELSE NoMetadata, m.data>>
        \o (IF "labels" \in DOMAIN m
            THEN <<"labels", m.labels.key.repr, m.labels.value>>
            ELSE <<>>)
        \o <<"}">>

RECURSIVE JsonItems(_)
JsonItems(manifests) ==
    IF manifests = <<>> THEN <<>>
    ELSE JsonObject(Head(manifests)) \o JsonItems(Tail(manifests))

\* json.dumps of a list of manifests
json_dumps(manifests) == <<"[">> \o JsonItems(manifests) \o <<"]">>

\* json.loads of one object: every key of a mapping is a str
RECURSIVE JsonParseItems(_, _)
JsonParseItems(text, i) ==
    IF text[i] = "]" THEN <<>>
    ELSE IF text[i + 3] = "labels"
    THEN <<LabelledDoc(text[i + 1], text[i + 2], Key("str", text[i + 4]), text[i + 5])>>
             \o JsonParseItems(text, i + 7)
    ELSE <<IF text[i + 1] = NoMetadata THEN NamelessDoc(text[i + 2])
             ELSE Doc(text[i + 1], text[i + 2])>>
             \o JsonParseItems(text, i + 4)

\* json.loads of such a text
json_loads(text) == JsonParseItems(text, 2)

-----------------------------------------------------------------------------
(* The library: provider side *)

Getenv(env, key) == IF key \in DOMAIN env THEN env[key] ELSE None

Falsy(v) == v = None \/ v = ""

\* get_name_of_breaking_app that never names an application
get_name_of_breaking_app_Never(env, relation_name) == None

\* get_name_of_breaking_app without the check of the hook's name
get_name_of_breaking_app_AnyHook(env, relation_name) ==
    IF Falsy(Getenv(env, "JUJU_REMOTE_APP")) THEN None
    ELSE IF ~(Getenv(env, "JUJU_RELATION") = relation_name) THEN None
    ELSE Getenv(env, "JUJU_REMOTE_APP")

\* get_name_of_breaking_app that names the remote application in the
\* relation-broken hook of any endpoint
get_name_of_breaking_app_AnyEndpoint(env, relation_name) ==
    IF Falsy(Getenv(env, "JUJU_REMOTE_APP")) THEN None
    ELSE IF ~(Getenv(env, "JUJU_HOOK_NAME")
                  \in {SECRETS_RELATION_NAME \o "-relation-broken",
                       ROLES_RELATION_NAME \o "-relation-broken"}) THEN None
    ELSE Getenv(env, "JUJU_REMOTE_APP")

get_name_of_breaking_app(env, relation_name) ==
    IF Falsy(Getenv(env, "JUJU_REMOTE_APP")) THEN None
    ELSE IF ~(Getenv(env, "JUJU_RELATION") = relation_name) THEN None
    ELSE IF ~(Getenv(env, "JUJU_HOOK_NAME") = relation_name \o "-relation-broken") THEN None
    ELSE Getenv(env, "JUJU_REMOTE_APP")

NoRelation == [name |-> None, app |-> None, data |-> <<>>]

\* self._charm.model.relations[relation_name]: the ids, in ascending order
RECURSIVE RelationIds(_, _, _)
RelationIds(rels, relation_name, from) ==
    IF from \notin DOMAIN rels THEN <<>>
    ELSE (IF rels[from].name = relation_name THEN <<from>> ELSE <<>>)
             \o RelationIds(rels, relation_name, from + 1)

\* a get whose default is a list of one manifest instead of "[]"
DatabagGet_DefaultNotEmpty(data) ==
    IF KUBERNETES_MANIFESTS_FIELD \in DOMAIN data
    THEN data[KUBERNETES_MANIFESTS_FIELD]
    ELSE <<"[", "{", "a", "x", "}", "]">>

\* relation.data[other_app].get(KUBERNETES_MANIFESTS_FIELD, "[]")
DatabagGet(data) ==
    IF KUBERNETES_MANIFESTS_FIELD \in DOMAIN data
    THEN data[KUBERNETES_MANIFESTS_FIELD]
    ELSE <<"[", "]">>

\* the loop of get_manifests with each relation's list put in front of the
\* lists read before it
RECURSIVE ExtendFrom_Prepend(_, _, _)
ExtendFrom_Prepend(rels, ids, other_app_to_skip) ==
    IF ids = <<>> THEN <<>>
    ELSE ExtendFrom_Prepend(rels, Tail(ids), other_app_to_skip)
             \o (IF rels[Head(ids)].app = other_app_to_skip
                 THEN <<>>
                 ELSE json_loads(DatabagGet(rels[Head(ids)].data)))

\* the loop of get_manifests if it left out one relation of the application
\* and read its other relations
RECURSIVE ExtendFrom_SkipOne(_, _, _)
ExtendFrom_SkipOne(rels, ids, other_app_to_skip) ==
    IF ids = <<>> THEN <<>>
    ELSE IF rels[Head(ids)].app = other_app_to_skip
    THEN ExtendFrom_SkipOne(rels, Tail(ids), None)
    ELSE json_loads(DatabagGet(rels[Head(ids)].data))
             \o ExtendFrom_SkipOne(rels, Tail(ids), other_app_to_skip)

\* the loop of get_manifests over the relations of the endpoint
RECURSIVE ExtendFrom(_, _, _)
ExtendFrom(rels, ids, other_app_to_skip) ==
    IF ids = <<>> THEN <<>>
    ELSE (IF rels[Head(ids)].app = other_app_to_skip
          THEN <<>>
          ELSE json_loads(DatabagGet(rels[Head(ids)].data)))
             \o ExtendFrom(rels, Tail(ids), other_app_to_skip)

\* get_manifests without the skip of the breaking application
get_manifests_NoSkip(rels, env, relation_name) ==
    ExtendFrom(rels, RelationIds(rels, relation_name, 1), None)

get_manifests(rels, env, relation_name) ==
    ExtendFrom(rels, RelationIds(rels, relation_name, 1),
               get_name_of_breaking_app(env, relation_name))

\* a provider that observes relation-changed only
ProviderObserved_ChangedOnly == {"-relation-changed"}

\* the relation events KubernetesManifestsProvider.__init__ observes; the
\* handler of each, _on_relation_changed or _on_relation_broken, emits updated
ProviderObserved == {"-relation-changed", "-relation-broken"}

\* what the provider of the relation emits in the hook of a relation event
ProviderEmits(kind) == IF kind \in ProviderObserved THEN "updated" ELSE ""

-----------------------------------------------------------------------------
(* The library: requirer side *)

_get_manifests_from_items(manifests_items) ==
    [i \in 1..Len(manifests_items) |-> manifests_items[i].manifest]

\* KubernetesManifest(manifest_content): the item of a parsed document
KubernetesManifest(doc) == [manifest_content |-> yaml_dump(doc), manifest |-> doc]

\* a setdefault instead of the update: a field that is there is kept
DatabagUpdate_KeepFirst(data, manifests_as_json) ==
    data @@ (KUBERNETES_MANIFESTS_FIELD :> manifests_as_json)

\* relation_data.update({KUBERNETES_MANIFESTS_FIELD: manifests_as_json})
DatabagUpdate(data, manifests_as_json) ==
    (KUBERNETES_MANIFESTS_FIELD :> manifests_as_json) @@ data

\* send_data without its leadership check
send_data_AnyUnit(rels, app, relation_name, manifest_items, is_leader) ==
    [r \in DOMAIN rels |->
        IF rels[r].name = relation_name /\ rels[r].app = app
        THEN [rels[r] EXCEPT
                !.data = DatabagUpdate(@, json_dumps(_get_manifests_from_items(manifest_items)))]
        ELSE rels[r]]

\* the relations after send_data(manifest_items) on a unit of application app
send_data(rels, app, relation_name, manifest_items, is_leader) ==
    IF ~is_leader THEN rels
    ELSE [r \in DOMAIN rels |->
            IF rels[r].name = relation_name /\ rels[r].app = app
            THEN [rels[r] EXCEPT
                    !.data = DatabagUpdate(@, json_dumps(_get_manifests_from_items(manifest_items)))]
            ELSE rels[r]]

\* a requirer that observes relation-created only
RequirerObserved_CreatedOnly == {"-relation-created"}

\* the events KubernetesManifestsRequirer.__init__ observes with _send_data:
\* leader-elected and the relation-created of its endpoint
RequirerObserved == {"leader-elected", "-relation-created"}

\* KubernetesManifestsRequirer._send_data
_send_data(rels, app, req, is_leader) ==
    send_data(rels, app, req.relation_name, req.manifests_items, is_leader)

\* the relations after the requirer req of a unit of app has seen the event
RequirerHandles(event, rels, app, req, is_leader) ==
    IF event \in RequirerObserved THEN _send_data(rels, app, req, is_leader) ELSE rels

-----------------------------------------------------------------------------
(* Exceptions and statuses *)

NoExc == [type |-> "none", msg |-> "", status_type |-> ""]
ErrorWithStatus(msg, status_type) ==
    [type |-> "ErrorWithStatus", msg |-> msg, status_type |-> status_type]
GenericCharmRuntimeError(msg) ==
    [type |-> "GenericCharmRuntimeError", msg |-> msg, status_type |-> ""]
\* pebble's APIError
APIError(msg) == [type |-> "APIError", msg |-> msg, status_type |-> ""]

Status(type, message) == [type |-> type, message |-> message]
ActiveStatus == Status("ActiveStatus", "")

\* the running handler: what it has changed so far and the exception in flight
Raised(s) == s.exc.type # "none"
Raise(s, e) == [s EXCEPT !.exc = e]
Log(s, relation_name, step) ==
    [s EXCEPT !.trace = Append(@, [cat |-> relation_name, step |-> step])]

-----------------------------------------------------------------------------
(* The container's files *)

RECURSIVE SetToSeq(_)
SetToSeq(S) ==
    IF S = {} THEN <<>>
    ELSE LET x == CHOOSE y \in S : TRUE IN <<x>> \o SetToSeq(S \ {x})

\* container.list_files(push_location); a missing directory is the APIError
\* "no such file or directory", which _sync_manifests turns into []
list_files(fsys, push_location) ==
    IF push_location \in DOMAIN fsys THEN SetToSeq(DOMAIN fsys[push_location]) ELSE <<>>

\* container.remove_path(path) of a file of directory dir
remove_path(fsys, dir, path) ==
    [fsys EXCEPT ![dir] = [p \in (DOMAIN @) \ {path} |-> @[p]]]

\* a push that appends to a file that is there instead of replacing it
push_Append(fsys, dir, path, source) ==
    IF dir \in DOMAIN fsys
    THEN [fsys EXCEPT ![dir] =
            (path :> (IF path \in DOMAIN @ THEN @[path] \o source ELSE source)) @@ @]
    ELSE (dir :> (path :> source)) @@ fsys

\* a push without make_dirs: nothing is written into a missing directory
push_NoMakeDirs(fsys, dir, path, source) ==
    IF dir \in DOMAIN fsys
    THEN [fsys EXCEPT ![dir] = (path :> source) @@ @]
    ELSE fsys

\* container.push(path, source, make_dirs=True) into directory dir
push(fsys, dir, path, source) ==
    IF dir \in DOMAIN fsys
    THEN [fsys EXCEPT ![dir] = (path :> source) @@ @]
    ELSE (dir :> (path :> source)) @@ fsys

ManifestLocation(push_location, m) ==
    push_location \o "/" \o m.metadata.name \o ".yaml"

-----------------------------------------------------------------------------
(* The charm *)

\* _manifests_valid with the count compared to 2
_manifests_valid_MoreThanTwo(manifests) ==
    IF manifests # <<>>
    THEN ~ \E i \in 1..Len(manifests) :
            Cardinality({j \in 1..Len(manifests) :
                manifests[j].metadata.name = manifests[i].metadata.name}) > 2
    ELSE TRUE

_manifests_valid(manifests) ==
    IF manifests # <<>>
    THEN ~ \E i \in 1..Len(manifests) :
            Cardinality({j \in 1..Len(manifests) :
                manifests[j].metadata.name = manifests[i].metadata.name}) > 1
    ELSE TRUE

\* the loop over all_files: stale files are removed
RECURSIVE RemoveStale(_, _, _, _)
RemoveStale(r, push_location, all_files, manifests_locations) ==
    IF all_files = <<>> THEN r
    ELSE LET file == Head(all_files)
             r1 == IF \E i \in 1..Len(manifests_locations) : manifests_locations[i] = file
                   THEN r
                   ELSE [fs |-> remove_path(r.fs, push_location, file),
                         ops |-> Append(r.ops, <<"remove_path", file>>)]
         IN RemoveStale(r1, push_location, Tail(all_files), manifests_locations)

\* the loop over manifests: each is pushed
RECURSIVE PushAll(_, _, _)
PushAll(r, push_location, manifests) ==
    IF manifests = <<>> THEN r
    ELSE LET path == ManifestLocation(push_location, Head(manifests))
             r1 == [fs |-> push(r.fs, push_location, path, yaml_dump(Head(manifests))),
                    ops |-> Append(r.ops, <<"push", path>>)]
         IN PushAll(r1, push_location, Tail(manifests))

\* _sync_manifests without its loop over all_files: stale files stay
_sync_manifests_KeepStale(fsys, manifests, push_location) ==
    PushAll([fs |-> fsys, ops |-> <<>>], push_location, manifests)

\* _sync_manifests with its two loops in the other order: the manifests are
\* pushed, then the stale files are removed
_sync_manifests_PushFirst(fsys, manifests, push_location) ==
    RemoveStale(PushAll([fs |-> fsys, ops |-> <<>>], push_location, manifests),
                push_location, list_files(fsys, push_location),
                [i \in 1..Len(manifests) |-> ManifestLocation(push_location, manifests[i])])

\* the files and the container operations after _sync_manifests
_sync_manifests(fsys, manifests, push_location) ==
    LET all_files == list_files(fsys, push_location)
        manifests_locations ==
            [i \in 1..Len(manifests) |-> ManifestLocation(push_location, manifests[i])]
        removed == RemoveStale([fs |-> fsys, ops |-> <<>>], push_location,
                               all_files, manifests_locations)
    IN PushAll(removed, push_location, manifests)

\* _check_leader that never raises
_check_leader_Pass(s, is_leader) == s

_check_leader(s, is_leader) ==
    IF ~is_leader
    THEN Raise(s, ErrorWithStatus("Waiting for leadership", "WaitingStatus"))
    ELSE s

\* _check_container that never defers nor raises
_check_container_Pass(s, can_connect, handler) == s

_check_container(s, can_connect, handler) ==
    IF ~can_connect
    THEN Raise([s EXCEPT !.deferred = Append(@, handler)],
               ErrorWithStatus("Container is not ready", "WaitingStatus"))
    ELSE s

LayerServices == "resource-dispatcher"

\* container.add_layer(...), then container.replan()
AddLayer(s, replan_ok) ==
    IF replan_ok THEN [s EXCEPT !.plan = LayerServices]
    ELSE Raise([s EXCEPT !.plan = LayerServices], GenericCharmRuntimeError("Failed to replan"))

\* _update_layer that gives up while the status is Blocked or Waiting
_update_layer_Sticky(s, replan_ok) ==
    IF s.status.type \in {"BlockedStatus", "WaitingStatus"}
    THEN Raise(s, ErrorWithStatus(s.status.message, s.status.type))
    ELSE IF s.plan # LayerServices
    THEN AddLayer([s EXCEPT !.status = Status("MaintenanceStatus", "Applying new pebble layer")],
                  replan_ok)
    ELSE s

_update_layer(s, replan_ok) ==
    IF s.plan # LayerServices
    THEN AddLayer([s EXCEPT !.status = Status("MaintenanceStatus", "Applying new pebble layer")],
                  replan_ok)
    ELSE s

\* _update_manifests that synchronises before it checks validity
ValidateAndSync_SyncFirst(s, manifests, relation_name, dispatch_folder) ==
    IF ~_manifests_valid(manifests)
    THEN Raise([Log(s, relation_name, "_sync_manifests") EXCEPT
                    !.fs = _sync_manifests(@, manifests, dispatch_folder).fs],
               ErrorWithStatus("Failed to process invalid manifest. See debug logs.",
                               "BlockedStatus"))
    ELSE [Log(s, relation_name, "_sync_manifests") EXCEPT
            !.fs = _sync_manifests(@, manifests, dispatch_folder).fs]

\* the call of _sync_manifests in a handler: list_files raises an APIError
\* other than "no such file or directory" for the directory the container
\* refuses to list, and _sync_manifests raises it again
SyncOrRaise(s, manifests, relation_name, dispatch_folder) ==
    IF s.denied = dispatch_folder
    THEN Raise(Log(s, relation_name, "_sync_manifests"), APIError("permission denied"))
    ELSE [Log(s, relation_name, "_sync_manifests") EXCEPT
            !.fs = _sync_manifests(@, manifests, dispatch_folder).fs]

\* m["metadata"]["name"] in _manifests_valid raises KeyError when a manifest
\* of the list has no metadata
ManifestsValidRaises(manifests) == \E i \in 1..Len(manifests) : ~HasName(manifests[i])

KeyError(key) == [type |-> "KeyError", msg |-> key, status_type |-> ""]

\* _update_manifests from the validity check on
ValidateAndSync(s, manifests, relation_name, dispatch_folder) ==
    IF ManifestsValidRaises(manifests) THEN Raise(s, KeyError("metadata"))
    ELSE IF ~_manifests_valid(manifests)
    THEN Raise(s, ErrorWithStatus("Failed to process invalid manifest. See debug logs.",
                                  "BlockedStatus"))
    ELSE SyncOrRaise(s, manifests, relation_name, dispatch_folder)

\* _update_manifests that checks the validity of the lists of all the
\* relations of the endpoint, the one of the breaking application included
_update_manifests_ValidateUnfiltered(s, rels, env, relation_name, dispatch_folder) ==
    IF ~_manifests_valid(get_manifests_NoSkip(rels, env, relation_name))
    THEN Raise(Log(Log(s, relation_name, "get_manifests"), relation_name, "_manifests_valid"),
               ErrorWithStatus("Failed to process invalid manifest. See debug logs.",
                               "BlockedStatus"))
    ELSE ValidateAndSync(Log(Log(s, relation_name, "get_manifests"),
                             relation_name, "_manifests_valid"),
                         get_manifests(rels, env, relation_name), relation_name,
                         dispatch_folder)

_update_manifests(s, rels, env, relation_name, dispatch_folder) ==
    ValidateAndSync(Log(Log(s, relation_name, "get_manifests"), relation_name, "_manifests_valid"),
                    get_manifests(rels, env, relation_name), relation_name, dispatch_folder)

\* one directory for the manifests of every endpoint
Folder_Shared(relation_name) == DISPATCHER_RESOURCES_PATH

Folder(relation_name) == DISPATCHER_RESOURCES_PATH \o "/" \o relation_name

\* the providers with roles first
UpdateOrder_RolesFirst ==
    << ROLES_RELATION_NAME, SECRETS_RELATION_NAME, SERVICEACCOUNTS_RELATION_NAME,
       PODDEFAULTS_RELATION_NAME, ROLEBINDINGS_RELATION_NAME >>

\* the providers _on_event updates, in the order of its calls
UpdateOrder ==
    << SECRETS_RELATION_NAME, SERVICEACCOUNTS_RELATION_NAME, PODDEFAULTS_RELATION_NAME,
       ROLES_RELATION_NAME, ROLEBINDINGS_RELATION_NAME >>

\* the calls of _update_manifests, each made whatever the ones before raised;
\* the first exception is the one in flight at the end
RECURSIVE UpdateAll_Continue(_, _, _, _)
UpdateAll_Continue(s, rels, env, order) ==
    IF order = <<>> THEN s
    ELSE UpdateAll_Continue(
             [_update_manifests([s EXCEPT !.exc = NoExc], rels, env,
                                Head(order), Folder(Head(order)))
                 EXCEPT !.exc = IF Raised(s) THEN s.exc ELSE @],
             rels, env, Tail(order))

\* the calls of _update_manifests: an exception ends them
RECURSIVE UpdateAll(_, _, _, _)
UpdateAll(s, rels, env, order) ==
    IF Raised(s) \/ order = <<>> THEN s
    ELSE UpdateAll(_update_manifests(s, rels, env, Head(order), Folder(Head(order))),
                   rels, env, Tail(order))

\* the calls of _on_event after _check_leader, each reached if none before it
\* raised; cx is what the handler reads of its surroundings
ThenCheckContainer(s, cx, handler) ==
    IF Raised(s) THEN s ELSE _check_container(s, cx.canConnect, handler)

ThenUpdateLayer(s, cx) ==
    IF Raised(s) THEN s ELSE _update_layer(s, cx.replanOk)

\* _on_event without its last line: the status is not set to Active
OnEventOutcome_NoActive(s) ==
    IF s.exc.type = "ErrorWithStatus"
    THEN [s EXCEPT !.status = Status(s.exc.status_type, s.exc.msg), !.exc = NoExc]
    ELSE s

\* _on_event that sets the status to Active after an ErrorWithStatus too
OnEventOutcome_AlwaysActive(s) ==
    IF Raised(s) /\ s.exc.type # "ErrorWithStatus" THEN s
    ELSE [s EXCEPT !.status = ActiveStatus, !.exc = NoExc]

\* the except clause of _on_event and its last line
OnEventOutcome(s) ==
    IF s.exc.type = "ErrorWithStatus"
    THEN [s EXCEPT !.status = Status(s.exc.status_type, s.exc.msg), !.exc = NoExc]
    ELSE IF Raised(s) THEN s
    ELSE [s EXCEPT !.status = ActiveStatus]

_on_event(s, cx, handler) ==
    OnEventOutcome(
        UpdateAll(
            ThenUpdateLayer(
                ThenCheckContainer(_check_leader(Log(s, "", "_on_event"), cx.leader),
                                   cx, handler),
                cx),
            cx.rels, cx.env, UpdateOrder))

\* _deploy_k8s_resources after the status is set: apply() and the next status
ApplyK8s(s, k8s_ok) ==
    IF ~k8s_ok
    THEN Raise(s, GenericCharmRuntimeError("K8S resources creation failed"))
    ELSE [s EXCEPT !.status =
            Status("WaitingStatus", "K8s resources created. Waiting for charm to be active")]

_deploy_k8s_resources(s, k8s_ok) ==
    ApplyK8s([s EXCEPT !.status = Status("MaintenanceStatus", "Creating K8S resources")], k8s_ok)

_on_install(s, cx) == _deploy_k8s_resources(Log(s, "", "_on_install"), cx.k8sOk)

\* _on_upgrade_charm after _deploy_k8s_resources
UpgradeThenEvent(s, cx) ==
    IF Raised(s) THEN s ELSE _on_event(s, cx, "_on_upgrade_charm")

\* _on_upgrade_charm without its call of _on_event
_on_upgrade_charm_DeployOnly(s, cx) ==
    _deploy_k8s_resources(Log(s, "", "_on_upgrade_charm"), cx.k8sOk)

_on_upgrade_charm(s, cx) ==
    UpgradeThenEvent(_deploy_k8s_resources(Log(s, "", "_on_upgrade_charm"), cx.k8sOk), cx)

\* the deletion without the status set at its end
RemoveResources_KeepStatus(s, k8s_ok) ==
    IF Raised(s) THEN s
    ELSE IF ~k8s_ok
    THEN Raise([s EXCEPT !.status = Status("MaintenanceStatus", "Removing K8S resources"),
                         !.reconciled = Append(@, <<>>)],
               [type |-> "ApiError", msg |-> "", status_type |-> ""])
    ELSE [s EXCEPT !.status = Status("MaintenanceStatus", "Removing K8S resources"),
                   !.reconciled = Append(@, <<>>)]

\* _on_remove after _check_leader: the policy manager is reconciled with no
\* raw policy, then the K8S resources are deleted; s.reconciled holds the
\* raw_policies of each call of reconcile
RemoveResources(s, k8s_ok) ==
    IF Raised(s) THEN s
    ELSE IF ~k8s_ok
    THEN Raise([s EXCEPT !.status = Status("MaintenanceStatus", "Removing K8S resources"),
                         !.reconciled = Append(@, <<>>)],
               [type |-> "ApiError", msg |-> "", status_type |-> ""])
    ELSE [s EXCEPT !.status = Status("MaintenanceStatus", "K8S resources removed"),
                   !.reconciled = Append(@, <<>>)]

_on_remove(s, cx) ==
    RemoveResources(_check_leader(Log(s, "", "_on_remove"), cx.leader), cx.k8sOk)

\* the AuthorizationPolicy of generate_allow_all_authorization_policy
AllowAllPolicy == "allow-all"

\* _validate_raw_policies([allow-all]): its RuntimeError or TypeError is
\* raised again as GenericCharmRuntimeError
ValidateRawPolicies(s, validate_exc) ==
    IF Raised(s) THEN s
    ELSE IF validate_exc \in {"RuntimeError", "TypeError"}
    THEN Raise(s, GenericCharmRuntimeError("Error validating raw policies"))
    ELSE s

\* a reconcile with the allow-all policy whether the relation is there or not
ReconcilePolicies_Always(s, ambient_mesh_enabled) ==
    IF Raised(s) THEN s
    ELSE [s EXCEPT !.reconciled = Append(@, <<AllowAllPolicy>>), !.status = ActiveStatus]

\* reconcile(policies=[], raw_policies=policies), then the status is Active
ReconcilePolicies(s, ambient_mesh_enabled) ==
    IF Raised(s) THEN s
    ELSE [s EXCEPT !.reconciled = Append(@, IF ambient_mesh_enabled
                                            THEN <<AllowAllPolicy>> ELSE <<>>),
                   !.status = ActiveStatus]

\* cx.meshEnabled is ambient_mesh_enabled: model.get_relation("service-mesh")
\* returns a relation
_on_service_mesh_relation_events(s, cx) ==
    ReconcilePolicies(
        ValidateRawPolicies(
            _check_leader(Log(s, "", "_on_service_mesh_relation_events"), cx.leader),
            cx.validateExc),
        cx.meshEnabled)

\* the observers registered in __init__
RunHandler(s, cx, handler) ==
    CASE handler = "_on_event" -> _on_event(s, cx, handler)
      [] handler = "_on_service_mesh_relation_events"
             -> _on_service_mesh_relation_events(s, cx)
      [] handler = "_on_upgrade_charm" -> _on_upgrade_charm(s, cx)
      [] handler = "_on_install" -> _on_install(s, cx)
      [] handler = "_on_remove" -> _on_remove(s, cx)
      [] OTHER -> s

\* the handler of the charm a relation event of a provider's endpoint reaches:
\* __init__ observes every provider's updated with _on_event
HandlerOf(kind) == IF ProviderEmits(kind) = "updated" THEN "_on_event" ELSE ""

\* ResourceDispatcherOperator.__init__
CharmInit(s, cx) == _check_leader(s, cx.leader)

\* the framework runs the handlers of the deferred events, then the hook's own
RECURSIVE Emit(_, _, _)
Emit(s, cx, handlers) ==
    IF Raised(s) \/ handlers = <<>> THEN s
    ELSE Emit(RunHandler(s, cx, Head(handlers)), cx, Tail(handlers))

\* a hook in which the framework does not run the deferred events again
RunHook_ForgetDeferred(s, cx, handler, pending) ==
    Emit(CharmInit(s, cx), cx, <<handler>>)

\* one hook of the dispatcher unit, from the construction of the charm on
RunHook(s, cx, handler, pending) ==
    Emit(CharmInit(s, cx), cx, Append(pending, handler))

-----------------------------------------------------------------------------
(* The system: the dispatcher unit, its container and the producers *)

\* the relations the model opens: the endpoint and the remote application of each
RelTable ==
    << [name |-> SECRETS_RELATION_NAME, app |-> "p1"],
       [name |-> SECRETS_RELATION_NAME, app |-> "p2"],
       [name |-> ROLES_RELATION_NAME, app |-> "p1"] >>
RelIds == 1..Len(RelTable)

Items(docs) == [i \in DOMAIN docs |-> KubernetesManifest(docs[i])]

\* the lists the producers of the model send
SentLists(app) ==
    IF app = "p1"
    THEN { Items(<<Doc("a", "x")>>), Items(<<Doc("a", "x"), Doc("a", "y")>>) }
    ELSE { Items(<<Doc("b", "x")>>), Items(<<Doc("a", "y")>>) }

Range(f) == {f[x] : x \in DOMAIN f}

\* the unit runs hooks from its install hook to its remove hook
Installed == hook.unit # "init" /\ hook.handler # "_on_remove"

\* the relations that are open
Open(rels) == {r \in DOMAIN rels : rels[r] # NoRelation}

NoEnv == <<>>
RelationEnv(r, kind) ==
    [JUJU_REMOTE_APP |-> RelTable[r].app,
     JUJU_RELATION |-> RelTable[r].name,
     JUJU_HOOK_NAME |-> RelTable[r].name \o kind]

NoCall == [fn |-> ""]

\* the directory whose listing the container refuses during a hook: none,
\* or the directory of secrets or of roles
Denied == {"", Folder(SECRETS_RELATION_NAME), Folder(ROLES_RELATION_NAME)}

\* no hook has run since the unit's surroundings changed
NoHook == [unit |-> "", handler |-> "", broken |-> 0, leader |-> FALSE, exc |-> "none"]

Init ==
    /\ leader \in BOOLEAN
    /\ canConnect = FALSE
    /\ status = Status("MaintenanceStatus", "")
    /\ plan = ""
    /\ relations = [r \in RelIds |-> NoRelation]
    /\ fs = <<>>
    /\ deferred = <<>>
    /\ hook = [unit |-> "init", handler |-> "", broken |-> 0, leader |-> FALSE, exc |-> "none"]
    /\ trace = <<>>
    /\ call = NoCall

\* the hook's outcome if a pass that ends Blocked undid its writes
Commit_RollBack(s, handler, r, is_leader) ==
    /\ Len(s.deferred) <= MaxDeferred
    /\ status' = s.status
    /\ plan' = s.plan
    /\ fs' = IF s.status.type = "BlockedStatus" THEN fs ELSE s.fs
    /\ deferred' = IF Raised(s) THEN deferred ELSE s.deferred
    /\ trace' = s.trace
    /\ hook' = [unit |-> "dispatcher", handler |-> handler, broken |-> r,
                leader |-> is_leader, exc |-> s.exc.type]

\* the hook's outcome: an uncaught exception leaves the framework's stored
\* events uncommitted
Commit(s, handler, r, is_leader) ==
    /\ Len(s.deferred) <= MaxDeferred
    /\ status' = s.status
    /\ plan' = s.plan
    /\ fs' = s.fs
    /\ deferred' = IF Raised(s) THEN deferred ELSE s.deferred
    /\ trace' = s.trace
    /\ hook' = [unit |-> "dispatcher", handler |-> handler, broken |-> r,
                leader |-> is_leader, exc |-> s.exc.type]

\* a hook of the dispatcher unit, dispatched while the model's relations are rels
\* and the container refuses to list directory denied, if any
DispatchEvent(r, env, handler, rels, is_leader, can_connect, denied) ==
    \E replanOk \in (IF is_leader /\ can_connect /\ plan # LayerServices
                      THEN BOOLEAN ELSE {TRUE}),
       k8sOk \in (IF is_leader /\ ({handler} \cup Range(deferred))
                                     \cap {"_on_install", "_on_upgrade_charm", "_on_remove"} # {}
                   THEN BOOLEAN ELSE {TRUE}) :
        Commit(RunHook([status |-> status, plan |-> plan, fs |-> fs, deferred |-> <<>>,
                        trace |-> <<>>, exc |-> NoExc, denied |-> denied,
                        reconciled |-> <<>>],
                       [leader |-> is_leader, canConnect |-> can_connect, rels |-> rels,
                        env |-> env, replanOk |-> replanOk, k8sOk |-> k8sOk],
                       handler, deferred),
               handler, r, is_leader)

\* a hook during which the container answers every listing
Dispatch(r, env, handler, rels, is_leader, can_connect) ==
    /\ call' = call
    /\ DispatchEvent(r, env, handler, rels, is_leader, can_connect, "")

Install ==
    /\ hook.unit = "init"
    /\ UNCHANGED <<leader, canConnect, relations>>
    /\ Dispatch(0, NoEnv, "_on_install", relations, leader, canConnect)

UpgradeCharm ==
    /\ Installed
    /\ UNCHANGED <<leader, canConnect, relations>>
    /\ Dispatch(0, NoEnv, "_on_upgrade_charm", relations, leader, canConnect)

ConfigChanged ==
    /\ Installed
    /\ UNCHANGED <<leader, canConnect, relations>>
    /\ Dispatch(0, NoEnv, "_on_event", relations, leader, canConnect)

Remove ==
    /\ Installed
    /\ UNCHANGED <<leader, canConnect, relations>>
    /\ Dispatch(0, NoEnv, "_on_remove", relations, leader, canConnect)

LeaderElected ==
    /\ Installed
    /\ ~leader
    /\ leader' = TRUE
    /\ UNCHANGED <<canConnect, relations>>
    /\ Dispatch(0, NoEnv, "", relations, TRUE, canConnect)

PebbleReady ==
    /\ Installed
    /\ ~canConnect
    /\ canConnect' = TRUE
    /\ UNCHANGED <<leader, relations>>
    /\ Dispatch(0, NoEnv, "", relations, leader, TRUE)

RelationCreated(r) ==
    /\ Installed
    /\ relations[r] = NoRelation
    /\ Cardinality(Open(relations)) < MaxOpen
    /\ relations' = [relations EXCEPT ![r] = [name |-> RelTable[r].name,
                                               app |-> RelTable[r].app, data |-> <<>>]]
    /\ UNCHANGED <<leader, canConnect>>
    /\ Dispatch(0, RelationEnv(r, "-relation-created"), HandlerOf("-relation-created"),
                [relations EXCEPT ![r] = [name |-> RelTable[r].name,
                                          app |-> RelTable[r].app, data |-> <<>>]],
                leader, canConnect)

RelationChanged(r) ==
    /\ Installed
    /\ relations[r] # NoRelation
    /\ UNCHANGED <<leader, canConnect, relations>>
    /\ Dispatch(0, RelationEnv(r, "-relation-changed"), HandlerOf("-relation-changed"),
                relations, leader, canConnect)

\* the relation is still in the model while its relation-broken hook runs
RelationBroken(r) ==
    /\ Installed
    /\ relations[r] # NoRelation
    /\ relations' = [relations EXCEPT ![r] = NoRelation]
    /\ UNCHANGED <<leader, canConnect>>
    /\ Dispatch(r, RelationEnv(r, "-relation-broken"), HandlerOf("-relation-broken"),
                relations, leader, canConnect)

\* a producer's unit calls send_data
SendData(app, relation_name, manifest_items, is_leader) ==
    /\ Installed
    /\ \E r \in RelIds : relations[r].name = relation_name /\ relations[r].app = app
    /\ relations' = send_data(relations, app, relation_name, manifest_items, is_leader)
    /\ hook' = [unit |-> "producer", handler |-> "send_data", broken |-> 0,
                leader |-> is_leader, exc |-> "none"]
    /\ trace' = <<>>
    /\ UNCHANGED <<leader, canConnect, status, plan, fs, deferred, call>>

LeadershipLost ==
    /\ Installed
    /\ leader
    /\ leader' = FALSE
    /\ hook' = NoHook
    /\ trace' = <<>>
    /\ UNCHANGED <<canConnect, status, plan, relations, fs, deferred, call>>

ContainerDown ==
    /\ Installed
    /\ canConnect
    /\ canConnect' = FALSE
    /\ hook' = NoHook
    /\ trace' = <<>>
    /\ UNCHANGED <<leader, status, plan, relations, fs, deferred, call>>

Next ==
    \/ Install
    \/ UpgradeCharm
    \/ ConfigChanged
    \/ Remove
    \/ LeaderElected
    \/ PebbleReady
    \/ \E r \in RelIds : RelationCreated(r)
    \/ \E r \in RelIds : RelationChanged(r)
    \/ \E r \in RelIds : RelationBroken(r)
    \/ \E app \in Apps, relation_name \in {SECRETS_RELATION_NAME, ROLES_RELATION_NAME},
          is_leader \in BOOLEAN :
            \E manifest_items \in SentLists(app) :
                SendData(app, relation_name, manifest_items, is_leader)
    \/ LeadershipLost
    \/ ContainerDown

Spec == Init /\ [][Next]_vars

-----------------------------------------------------------------------------
(* _sync_manifests called on its own, on a container with any files *)

\* the files a directory may hold before the first call
PriorPaths(dir) == {dir \o "/" \o n \o ".yaml" : n \in Names \cup {"old"}}
PriorContents == {yaml_dump(Doc(n, "x")) : n \in Names} \cup {"stale"}

PriorDirs(dir) ==
    UNION {[P -> PriorContents] :
              P \in {Q \in SUBSET PriorPaths(dir) : Cardinality(Q) <= MaxPrior}}

\* the containers before the first call: either directory may be missing
PriorFs ==
    {<<>>}
    \cup {(Folder(SECRETS_RELATION_NAME) :> d) : d \in PriorDirs(Folder(SECRETS_RELATION_NAME))}
    \cup {(Folder(SECRETS_RELATION_NAME) :> d) @@
              (Folder(ROLES_RELATION_NAME) :>
                  ((Folder(ROLES_RELATION_NAME) \o "/a.yaml") :> "stale"))
          : d \in PriorDirs(Folder(SECRETS_RELATION_NAME))}

InitSync ==
    /\ leader = TRUE
    /\ canConnect = TRUE
    /\ status = ActiveStatus
    /\ plan = LayerServices
    /\ relations = [r \in RelIds |-> NoRelation]
    /\ fs \in PriorFs
    /\ deferred = <<>>
    /\ hook = NoHook
    /\ trace = <<>>
    /\ call = NoCall

\* a call on a prior container
SyncCall(manifests, push_location) ==
    /\ call = NoCall
    /\ fs' = _sync_manifests(fs, manifests, push_location).fs
    /\ trace' = _sync_manifests(fs, manifests, push_location).ops
    /\ call' = [fn |-> "_sync_manifests", manifests |-> manifests,
                push_location |-> push_location, before |-> fs, run |-> 1]
    /\ UNCHANGED <<leader, canConnect, status, plan, relations, deferred, hook>>

\* the same call once more, right after the first
SyncAgain ==
    /\ call.fn = "_sync_manifests"
    /\ call.run = 1
    /\ fs' = _sync_manifests(fs, call.manifests, call.push_location).fs
    /\ trace' = _sync_manifests(fs, call.manifests, call.push_location).ops
    /\ call' = [call EXCEPT !.before = fs, !.run = 2]
    /\ UNCHANGED <<leader, canConnect, status, plan, relations, deferred, hook>>

NextSync ==
    \/ \E manifests \in SeqsUpTo(Docs, MaxItems),
          push_location \in {Folder(SECRETS_RELATION_NAME), Folder(ROLES_RELATION_NAME)} :
            SyncCall(manifests, push_location)
    \/ SyncAgain

SpecSync == InitSync /\ [][NextSync]_vars

-----------------------------------------------------------------------------
(* _manifests_valid called on its own, on any list *)

InitValid ==
    /\ leader = TRUE
    /\ canConnect = TRUE
    /\ status = ActiveStatus
    /\ plan = LayerServices
    /\ relations = [r \in RelIds |-> NoRelation]
    /\ fs = <<>>
    /\ deferred = <<>>
    /\ hook = NoHook
    /\ trace = <<>>
    /\ call = NoCall

ValidCall(manifests) ==
    /\ call = NoCall
    /\ call' = [fn |-> "_manifests_valid", manifests |-> manifests,
                ret |-> _manifests_valid(manifests)]
    /\ UNCHANGED <<leader, canConnect, status, plan, relations, fs, deferred, hook, trace>>

NextValid == \E manifests \in SeqsUpTo(Docs, MaxChecked) : ValidCall(manifests)

SpecValid == InitValid /\ [][NextValid]_vars

-----------------------------------------------------------------------------
(* get_manifests called on its own, with any relations and any environment *)

\* the databags of a relation: nothing sent yet, or a list sent
SentBags ==
    { <<>>,
      (KUBERNETES_MANIFESTS_FIELD :> json_dumps(<<Doc("a", "x")>>)),
      (KUBERNETES_MANIFESTS_FIELD :> json_dumps(<<Doc("b", "y"), Doc("a", "x")>>)) }

Channels ==
    {NoRelation} \cup
    [name : {SECRETS_RELATION_NAME, ROLES_RELATION_NAME}, app : Apps, data : SentBags]

EnvValues(key) ==
    IF key = "JUJU_REMOTE_APP" THEN {None, ""} \cup Apps
    ELSE IF key = "JUJU_RELATION" THEN {None, SECRETS_RELATION_NAME, ROLES_RELATION_NAME}
    ELSE {None, SECRETS_RELATION_NAME \o "-relation-broken",
          ROLES_RELATION_NAME \o "-relation-broken",
          SECRETS_RELATION_NAME \o "-relation-changed"}

EnvKeys == {"JUJU_REMOTE_APP", "JUJU_RELATION", "JUJU_HOOK_NAME"}

\* os.environ: a variable that is unset is not in it
Environ(f) == [k \in {j \in EnvKeys : f[j] # None} |-> f[k]]
Envs ==
    {Environ(f) : f \in {g \in [EnvKeys -> UNION {EnvValues(k) : k \in EnvKeys}] :
                            \A k \in EnvKeys : g[k] \in EnvValues(k)}}

InitProvider ==
    /\ leader = TRUE
    /\ canConnect = TRUE
    /\ status = ActiveStatus
    /\ plan = LayerServices
    /\ relations \in [1..MaxChannels -> Channels]
    /\ fs = <<>>
    /\ deferred = <<>>
    /\ hook = NoHook
    /\ trace = <<>>
    /\ call = NoCall

GetCall(env, relation_name) ==
    /\ call = NoCall
    /\ call' = [fn |-> "get_manifests", env |-> env, relation_name |-> relation_name,
                ret |-> get_manifests(relations, env, relation_name),
                first |-> get_manifests(relations, env, relation_name), count |-> 1,
                breaking |-> get_name_of_breaking_app(env, relation_name)]
    /\ UNCHANGED <<leader, canConnect, status, plan, relations, fs, deferred, hook, trace>>

\* the same call once more, on the same relations in the same environment
GetAgain ==
    /\ call.fn = "get_manifests"
    /\ call.count < MaxCalls
    /\ call' = [call EXCEPT !.ret = get_manifests(relations, call.env, call.relation_name),
                            !.count = @ + 1]
    /\ UNCHANGED <<leader, canConnect, status, plan, relations, fs, deferred, hook, trace>>

NextProvider ==
    \/ \E env \in Envs, relation_name \in {SECRETS_RELATION_NAME, ROLES_RELATION_NAME} :
            GetCall(env, relation_name)
    \/ GetAgain

SpecProvider == InitProvider /\ [][NextProvider]_vars

-----------------------------------------------------------------------------
(* send_data, then get_manifests on the other side of the relation *)

\* documents with and without a mapping, its key an int or a str
CodecDocs ==
    Docs \cup {LabelledDoc("a", "x", Key(t, "1"), "v") : t \in {"int", "str"}}

InitCodec ==
    /\ leader = TRUE
    /\ canConnect = TRUE
    /\ status = ActiveStatus
    /\ plan = LayerServices
    /\ relations = <<[name |-> SECRETS_RELATION_NAME, app |-> "p1", data |-> <<>>]>>
    /\ fs = <<>>
    /\ deferred = <<>>
    /\ hook = NoHook
    /\ trace = <<>>
    /\ call = NoCall

SendCall(docs, is_leader) ==
    /\ call = NoCall
    /\ relations' = send_data(relations, "p1", SECRETS_RELATION_NAME, Items(docs), is_leader)
    /\ call' = [fn |-> "send_data", manifest_items |-> Items(docs), is_leader |-> is_leader]
    /\ UNCHANGED <<leader, canConnect, status, plan, fs, deferred, hook, trace>>

ReadCall ==
    /\ call.fn = "send_data"
    /\ call' = [fn |-> "get_manifests", manifest_items |-> call.manifest_items,
                is_leader |-> call.is_leader,
                ret |-> get_manifests(relations, NoEnv, SECRETS_RELATION_NAME)]
    /\ UNCHANGED <<leader, canConnect, status, plan, relations, fs, deferred, hook, trace>>

NextCodec ==
    \/ \E docs \in SeqsUpTo(CodecDocs, MaxItems), is_leader \in BOOLEAN :
            SendCall(docs, is_leader)
    \/ ReadCall

SpecCodec == InitCodec /\ [][NextCodec]_vars

-----------------------------------------------------------------------------
(* send_data called on its own, on relations with any payloads *)

InitSend ==
    /\ leader = TRUE
    /\ canConnect = TRUE
    /\ status = ActiveStatus
    /\ plan = LayerServices
    /\ relations \in [1..MaxChannels -> Channels]
    /\ fs = <<>>
    /\ deferred = <<>>
    /\ hook = NoHook
    /\ trace = <<>>
    /\ call = NoCall

\* a unit of application p1 calls send_data of the wrapper of relation_name
SendOnce(relation_name, docs, is_leader) ==
    /\ call = NoCall
    /\ relations' = send_data(relations, "p1", relation_name, Items(docs), is_leader)
    /\ call' = [fn |-> "send_data", app |-> "p1", relation_name |-> relation_name,
                manifest_items |-> Items(docs), is_leader |-> is_leader, before |-> relations]
    /\ UNCHANGED <<leader, canConnect, status, plan, fs, deferred, hook, trace>>

NextSend ==
    \E relation_name \in {SECRETS_RELATION_NAME, ROLES_RELATION_NAME},
       docs \in SeqsUpTo(Docs, MaxItems), is_leader \in BOOLEAN :
        SendOnce(relation_name, docs, is_leader)

SpecSend == InitSend /\ [][NextSend]_vars

-----------------------------------------------------------------------------
(* The relation events of the dispatcher unit, each hook with its event *)

RelationEvents == {"-relation-created", "-relation-changed", "-relation-broken"}

InitEvents ==
    /\ leader \in BOOLEAN
    /\ canConnect = TRUE
    /\ status = ActiveStatus
    /\ plan = LayerServices
    /\ relations = [r \in RelIds |-> NoRelation]
    /\ fs = <<>>
    /\ deferred = <<>>
    /\ hook = NoHook
    /\ trace = <<>>
    /\ call = NoCall

\* the model's relations after the hook of event kind of relation r
AfterEvent(rels, r, kind) ==
    IF kind = "-relation-created"
    THEN [rels EXCEPT ![r] = [name |-> RelTable[r].name, app |-> RelTable[r].app, data |-> <<>>]]
    ELSE IF kind = "-relation-broken" THEN [rels EXCEPT ![r] = NoRelation]
    ELSE rels

\* the hook of event kind of relation r on the dispatcher unit, during which
\* the container refuses to list directory denied, if any
RelationEvent(r, kind, denied) ==
    /\ IF kind = "-relation-created"
       THEN relations[r] = NoRelation /\ Cardinality(Open(relations)) < MaxOpen
       ELSE relations[r] # NoRelation
    /\ relations' = AfterEvent(relations, r, kind)
    /\ call' = [fn |-> kind, relation |-> r, denied |-> denied]
    /\ UNCHANGED <<leader, canConnect>>
    /\ DispatchEvent(IF kind = "-relation-broken" THEN r ELSE 0, RelationEnv(r, kind),
                     HandlerOf(kind),
                     IF kind = "-relation-created" THEN AfterEvent(relations, r, kind)
                     ELSE relations,
                     leader, canConnect, denied)

\* the lists the producers send: p1 also sends a document without metadata
EventLists(app) ==
    SentLists(app) \cup (IF app = "p1" THEN {Items(<<NamelessDoc("x")>>)} ELSE {})

NextEvents ==
    \/ \E r \in RelIds, kind \in RelationEvents, denied \in Denied :
            RelationEvent(r, kind, denied)
    \/ \E app \in Apps, relation_name \in {SECRETS_RELATION_NAME, ROLES_RELATION_NAME},
          is_leader \in BOOLEAN :
            \E manifest_items \in EventLists(app) :
                SendData(app, relation_name, manifest_items, is_leader)

SpecEvents == InitEvents /\ [][NextEvents]_vars

-----------------------------------------------------------------------------
(* A unit of application p1 with a KubernetesManifestsRequirer: here leader is *)
(* is_leader() of that unit and call is the requirer it constructed            *)

InitRequirer ==
    /\ leader \in BOOLEAN
    /\ canConnect = TRUE
    /\ status = ActiveStatus
    /\ plan = LayerServices
    /\ relations = [r \in RelIds |-> NoRelation]
    /\ fs = <<>>
    /\ deferred = <<>>
    /\ hook = NoHook
    /\ trace = <<>>
    /\ call \in [fn : {"KubernetesManifestsRequirer"},
                  relation_name : {SECRETS_RELATION_NAME, ROLES_RELATION_NAME},
                  manifests_items : {Items(docs) : docs \in SeqsUpTo(Docs, MaxItems)}]

RequirerHook(event, is_leader) ==
    [unit |-> "producer", handler |-> event, broken |-> 0, leader |-> is_leader, exc |-> "none"]

\* the relation-created hook of relation r of p1; the requirer sees the event
\* if the relation is of its endpoint
RequirerRelationCreated(r) ==
    /\ RelTable[r].app = "p1"
    /\ relations[r] = NoRelation
    /\ relations' = RequirerHandles(IF RelTable[r].name = call.relation_name
                                    THEN "-relation-created" ELSE "",
                                    AfterEvent(relations, r, "-relation-created"),
                                    "p1", call, leader)
    /\ hook' = RequirerHook("-relation-created", leader)
    /\ UNCHANGED <<leader, canConnect, status, plan, fs, deferred, trace, call>>

\* the unit becomes the leader and runs its leader-elected hook
RequirerLeaderElected ==
    /\ ~leader
    /\ leader' = TRUE
    /\ relations' = RequirerHandles("leader-elected", relations, "p1", call, TRUE)
    /\ hook' = RequirerHook("leader-elected", TRUE)
    /\ UNCHANGED <<canConnect, status, plan, fs, deferred, trace, call>>

\* another unit of p1 becomes the leader
RequirerLeadershipLost ==
    /\ leader
    /\ leader' = FALSE
    /\ hook' = NoHook
    /\ UNCHANGED <<canConnect, status, plan, relations, fs, deferred, trace, call>>

\* the relation-broken hook of relation r of p1, which the requirer does not see
RequirerRelationBroken(r) ==
    /\ RelTable[r].app = "p1"
    /\ relations[r] # NoRelation
    /\ relations' = RequirerHandles("-relation-broken",
                                    AfterEvent(relations, r, "-relation-broken"),
                                    "p1", call, leader)
    /\ hook' = RequirerHook("-relation-broken", leader)
    /\ UNCHANGED <<leader, canConnect, status, plan, fs, deferred, trace, call>>

NextRequirer ==
    \/ \E r \in RelIds : RequirerRelationCreated(r)
    \/ RequirerLeaderElected
    \/ RequirerLeadershipLost
    \/ \E r \in RelIds : RequirerRelationBroken(r)

SpecRequirer == InitRequirer /\ [][NextRequirer]_vars

-----------------------------------------------------------------------------
(* KubernetesManifest built from a text, as the charm of a producer does   *)
(* before send_data: a YAML text is the sequence of its lines              *)

\* most texts a producer builds its items from in one hook
MaxTexts == 2

\* the line "key: value" at an indentation; the value "" opens a nested mapping
Line(indent, key, value) == [indent |-> indent, key |-> key, value |-> value]

\* a scalar that opens a double quote and never closes it
OpenQuoted == "\"x"

\* the texts a producer holds: a data line, alone or followed by the metadata
\* mapping or by an indented line that has no mapping to go in, each scalar
\* with or without a quote left open
YamlTexts ==
    {<<Line(0, "data", v)>> : v \in Contents \cup {OpenQuoted}}
        \cup {<<Line(0, "data", v), Line(0, "metadata", ""), Line(2, "name", w)>> :
                 v \in Contents \cup {OpenQuoted}, w \in Names \cup {OpenQuoted}}
        \cup {<<Line(0, "data", v), Line(2, "name", w)>> :
                 v \in Contents \cup {OpenQuoted}, w \in Names \cup {OpenQuoted}}

YAMLError == [type |-> "YAMLError", msg |-> "", status_type |-> ""]

\* yaml's scanner: a quote left open, or a mapping entry indented under a
\* line that holds a scalar, is an error
YamlRaises(text) ==
    \E i \in DOMAIN text :
        IF text[i].value = OpenQuoted THEN TRUE
        ELSE IF text[i].indent = 0 THEN FALSE
        ELSE IF i = 1 THEN TRUE
        ELSE text[i - 1].indent < text[i].indent /\ text[i - 1].value # ""

\* the last of the lines js of the text that has the key
LastWith(text, js, key) ==
    CHOOSE j \in js : text[j].key = key /\ \A k \in js : text[k].key = key => k <= j

\* the mapping of the lines nested under line i
Nested(text, i) ==
    LET js == {j \in DOMAIN text :
                  j > i /\ \A k \in (i + 1)..j : text[k].indent > text[i].indent}
    IN  IF js = {} THEN None
        ELSE [key \in {text[j].key : j \in js} |-> text[LastWith(text, js, key)].value]

\* yaml.safe_load of a text that the scanner accepts
yaml_safe_load(text) ==
    LET tops == {i \in DOMAIN text : text[i].indent = 0}
    IN  [key \in {text[i].key : i \in tops} |->
            IF text[LastWith(text, tops, key)].value = ""
            THEN Nested(text, LastWith(text, tops, key))
            ELSE text[LastWith(text, tops, key)].value]

\* a constructor that keeps the text it cannot load instead of failing
KubernetesManifest__post_init___Lenient(manifest_content) ==
    [exc |-> NoExc, manifest_content |-> manifest_content,
     manifest |-> IF YamlRaises(manifest_content) THEN NamelessDoc("x")
                  ELSE yaml_safe_load(manifest_content)]

\* KubernetesManifest(manifest_content): __post_init__ loads the text, and
\* the exception of yaml.safe_load leaves the constructor
KubernetesManifest__post_init__(manifest_content) ==
    IF YamlRaises(manifest_content) THEN [exc |-> YAMLError]
    ELSE [exc |-> NoExc, manifest_content |-> manifest_content,
          manifest |-> yaml_safe_load(manifest_content)]

\* [KubernetesManifest(text) for each text]: the first exception ends it
ManifestItems(texts) ==
    IF \E i \in DOMAIN texts : Raised(KubernetesManifest__post_init__(texts[i]))
    THEN [exc |-> YAMLError, items |-> <<>>]
    ELSE [exc |-> NoExc,
          items |-> [i \in DOMAIN texts |->
                        [manifest_content |-> texts[i],
                         manifest |-> KubernetesManifest__post_init__(texts[i]).manifest]]]

\* p1 has a relation on each endpoint, the one of secrets with or without
\* a payload
InitManifest ==
    /\ leader \in BOOLEAN
    /\ canConnect = TRUE
    /\ status = ActiveStatus
    /\ plan = LayerServices
    /\ \E data \in SentBags :
           relations = <<[name |-> SECRETS_RELATION_NAME, app |-> "p1", data |-> data],
                         [name |-> ROLES_RELATION_NAME, app |-> "p1", data |-> <<>>]>>
    /\ fs = <<>>
    /\ deferred = <<>>
    /\ hook = NoHook
    /\ trace = <<>>
    /\ call = NoCall

\* a hook of a unit of p1 that builds its items from texts and sends them:
\* manifest_items = [KubernetesManifest(text), ...], then send_data
_send_secret(relation_name, texts) ==
    /\ relations' = IF Raised(ManifestItems(texts)) THEN relations
                    ELSE send_data(relations, "p1", relation_name,
                                   ManifestItems(texts).items, leader)
    /\ hook' = [NoHook EXCEPT !.unit = "p1", !.handler = "_send_secret",
                              !.leader = leader, !.exc = ManifestItems(texts).exc.type]
    /\ call' = [fn |-> "_send_secret", relation_name |-> relation_name,
                texts |-> texts, before |-> relations]
    /\ UNCHANGED <<leader, canConnect, status, plan, fs, deferred, trace>>

NextManifest ==
    /\ call = NoCall
    /\ \E relation_name \in {SECRETS_RELATION_NAME, ROLES_RELATION_NAME},
          texts \in SeqsUpTo(YamlTexts, MaxTexts) :
           _send_secret(relation_name, texts)

SpecManifest == InitManifest /\ [][NextManifest]_vars

-----------------------------------------------------------------------------
(* The hooks of the service-mesh relation and the remove hook: here        *)
(* relations holds the service-mesh relation alone and call the last hook  *)

MeshRelation == [name |-> "service-mesh", app |-> "istio-beacon-k8s", data |-> <<>>]

MeshHooks ==
    {"service-mesh-relation-created", "service-mesh-relation-changed",
     "service-mesh-relation-broken", "remove"}

\* the handler __init__ registers for the hook
MeshHandlerOf(kind) ==
    IF kind \in {"service-mesh-relation-changed", "service-mesh-relation-broken"}
    THEN "_on_service_mesh_relation_events"
    ELSE IF kind = "remove" THEN "_on_remove"
    ELSE ""

InitMesh ==
    /\ leader \in BOOLEAN
    /\ canConnect = TRUE
    /\ status \in {ActiveStatus, Status("WaitingStatus", "Waiting for leadership"),
                   Status("BlockedStatus",
                          "Failed to process invalid manifest. See debug logs.")}
    /\ plan = LayerServices
    /\ relations = <<NoRelation>>
    /\ fs = <<>>
    /\ deferred = <<>>
    /\ hook = NoHook
    /\ trace = <<>>
    /\ call = NoCall

\* what the hook's handler does, from the construction of the charm on
MeshRun(kind, enabled, validate_exc, k8s_ok) ==
    RunHook([status |-> status, plan |-> plan, fs |-> fs, deferred |-> <<>>,
             trace |-> <<>>, exc |-> NoExc, denied |-> "", reconciled |-> <<>>],
            [leader |-> leader, canConnect |-> canConnect, rels |-> <<>>, env |-> NoEnv,
             replanOk |-> TRUE, k8sOk |-> k8s_ok, validateExc |-> validate_exc,
             meshEnabled |-> enabled],
            MeshHandlerOf(kind), deferred)

\* a hook of the dispatcher unit: of the service-mesh relation, or remove.
\* In the relation-broken hook the relation is or is not in the model any
\* more, by the version of the framework.
MeshHook(kind, in_model, validate_exc, k8s_ok) ==
    /\ hook.handler # "_on_remove"
    /\ IF kind = "service-mesh-relation-created" THEN relations[1] = NoRelation
       ELSE IF kind = "remove" THEN TRUE
       ELSE relations[1] # NoRelation
    /\ kind = "service-mesh-relation-changed" => in_model
    /\ relations' = IF kind = "service-mesh-relation-created" THEN <<MeshRelation>>
                    ELSE IF kind = "service-mesh-relation-broken" THEN <<NoRelation>>
                    ELSE relations
    /\ call' = [fn |-> kind,
                enabled |-> in_model,
                validate_exc |-> validate_exc, before |-> status,
                reconciled |-> MeshRun(kind, in_model, validate_exc, k8s_ok).reconciled]
    /\ Commit(MeshRun(kind, in_model, validate_exc, k8s_ok), MeshHandlerOf(kind), 0, leader)
    /\ UNCHANGED <<leader, canConnect>>

NextMesh ==
    \E kind \in MeshHooks, in_model \in BOOLEAN,
       validate_exc \in {"none", "RuntimeError", "TypeError"}, k8s_ok \in BOOLEAN :
        MeshHook(kind, in_model, validate_exc, k8s_ok)

SpecMesh == InitMesh /\ [][NextMesh]_vars

-----------------------------------------------------------------------------
(* The upgrade out of order: the producers already send the documents      *)
(* themselves (library 0.2) while the dispatcher still has the library of  *)
(* the earlier generation (0.1), then the dispatcher is upgraded.  Here    *)
(* call holds the generation of the dispatcher's library.                  *)

TypeError == [type |-> "TypeError", msg |-> "unexpected keyword argument", status_type |-> ""]

\* a get_manifests of the earlier generation that takes the documents as
\* they are
get_manifests_0_1_Tolerant(rels, env, relation_name) ==
    [exc |-> NoExc, ret |-> get_manifests(rels, env, relation_name)]

\* get_manifests of the earlier generation on the payloads of the later one:
\* KubernetesManifest(**item) for each item of each list that is not left
\* out, and an item that is a document, not {manifest_content: text}, raises
\* TypeError; the lists that are empty give nothing
get_manifests_0_1(rels, env, relation_name) ==
    IF \E i \in DOMAIN RelationIds(rels, relation_name, 1) :
           /\ rels[RelationIds(rels, relation_name, 1)[i]].app
                  # get_name_of_breaking_app(env, relation_name)
           /\ json_loads(DatabagGet(rels[RelationIds(rels, relation_name, 1)[i]].data)) # <<>>
    THEN [exc |-> TypeError, ret |-> <<>>]
    ELSE [exc |-> NoExc, ret |-> <<>>]

\* the calls of _update_manifests of the earlier generation
RECURSIVE UpdateAll_0_1(_, _, _, _)
UpdateAll_0_1(s, rels, env, order) ==
    IF Raised(s) \/ order = <<>> THEN s
    ELSE UpdateAll_0_1(
             IF Raised(get_manifests_0_1(rels, env, Head(order)))
             THEN Raise(Log(s, Head(order), "get_manifests"),
                        get_manifests_0_1(rels, env, Head(order)).exc)
             ELSE ValidateAndSync(Log(Log(s, Head(order), "get_manifests"),
                                      Head(order), "_manifests_valid"),
                                  get_manifests_0_1(rels, env, Head(order)).ret,
                                  Head(order), Folder(Head(order))),
             rels, env, Tail(order))

\* _on_event of the earlier generation: the same pass, over the endpoints it
\* has: secrets, service-accounts and pod-defaults
_on_event_0_1(s, cx) ==
    OnEventOutcome(
        UpdateAll_0_1(
            ThenUpdateLayer(
                ThenCheckContainer(_check_leader(Log(s, "", "_on_event"), cx.leader),
                                   cx, "_on_event"),
                cx),
            cx.rels, cx.env,
            <<SECRETS_RELATION_NAME, SERVICEACCOUNTS_RELATION_NAME, PODDEFAULTS_RELATION_NAME>>))

\* one unit, the leader, with its container reachable, and no relation yet
InitUpgrade ==
    /\ leader = TRUE
    /\ canConnect = TRUE
    /\ status = ActiveStatus
    /\ plan = LayerServices
    /\ relations = [r \in RelIds |-> NoRelation]
    /\ fs = <<>>
    /\ deferred = <<>>
    /\ hook = NoHook
    /\ trace = <<>>
    /\ call = [fn |-> "charm", lib |-> "0.1"]

\* a hook of a secrets relation on the dispatcher of the earlier generation
RelationEvent_0_1(r, kind) ==
    /\ call.lib = "0.1"
    /\ RelTable[r].name = SECRETS_RELATION_NAME
    /\ IF kind = "-relation-created"
       THEN relations[r] = NoRelation /\ Cardinality(Open(relations)) < MaxOpen
       ELSE relations[r] # NoRelation
    /\ relations' = AfterEvent(relations, r, kind)
    /\ Commit(IF HandlerOf(kind) = "_on_event"
              THEN _on_event_0_1([status |-> status, plan |-> plan, fs |-> fs,
                                  deferred |-> <<>>, trace |-> <<>>, exc |-> NoExc,
                                  denied |-> "", reconciled |-> <<>>],
                                 [leader |-> leader, canConnect |-> canConnect,
                                  rels |-> relations, env |-> RelationEnv(r, kind),
                                  replanOk |-> TRUE, k8sOk |-> TRUE])
              ELSE [status |-> status, plan |-> plan, fs |-> fs, deferred |-> <<>>,
                    trace |-> <<>>, exc |-> NoExc, denied |-> "", reconciled |-> <<>>],
              HandlerOf(kind), IF kind = "-relation-broken" THEN r ELSE 0, leader)
    /\ UNCHANGED <<leader, canConnect, call>>

\* the charm of the dispatcher is refreshed: the upgrade-charm hook runs the
\* charm of the later generation
UpgradeDispatcher ==
    /\ call.lib = "0.1"
    /\ call' = [call EXCEPT !.lib = "0.2"]
    /\ UNCHANGED <<leader, canConnect, relations>>
    /\ DispatchEvent(0, NoEnv, "_on_upgrade_charm", relations, leader, canConnect, "")

NextUpgrade ==
    \/ \E r \in RelIds, kind \in RelationEvents : RelationEvent_0_1(r, kind)
    \/ UpgradeDispatcher
    \/ \E r \in RelIds : call.lib = "0.2" /\ RelationCreated(r)
    \/ \E r \in RelIds : call.lib = "0.2" /\ RelationChanged(r)
    \/ \E r \in RelIds : call.lib = "0.2" /\ RelationBroken(r)
    \/ \E app \in Apps, is_leader \in BOOLEAN :
           \E manifest_items \in SentLists(app) :
               SendData(app, SECRETS_RELATION_NAME, manifest_items, is_leader)
    \/ \E is_leader \in BOOLEAN :
           \E manifest_items \in SentLists("p1") :
               call.lib = "0.2"
                   /\ SendData("p1", ROLES_RELATION_NAME, manifest_items, is_leader)

SpecUpgrade == InitUpgrade /\ [][NextUpgrade]_vars

-----------------------------------------------------------------------------
(* Properties *)

DirFiles(fsys, dir) == IF dir \in DOMAIN fsys THEN DOMAIN fsys[dir] ELSE {}

DistinctNames(ms) ==
    \A i, j \in 1..Len(ms) : i # j => ms[i].metadata.name # ms[j].metadata.name

FileOf(dir, m) == dir \o "/" \o m.metadata.name \o ".yaml"

\* C1: after _sync_manifests(manifests, push_location) returns, for manifests
\* with pairwise distinct names, the files of push_location are exactly the
\* files <name>.yaml of the manifests, each holds the serialization of its
\* manifest, every other file that was there before is gone, and an empty
\* list leaves the directory without files.
C1_SyncPostcondition ==
    (call.fn = "_sync_manifests" /\ DistinctNames(call.manifests)) =>
        /\ DirFiles(fs, call.push_location)
               = {FileOf(call.push_location, call.manifests[i]) : i \in 1..Len(call.manifests)}
        /\ \A i \in 1..Len(call.manifests) :
               fs[call.push_location][FileOf(call.push_location, call.manifests[i])]
                   = yaml_dump(call.manifests[i])
        /\ \A p \in DirFiles(call.before, call.push_location) :
               (\A i \in 1..Len(call.manifests) : p # FileOf(call.push_location, call.manifests[i]))
                   => p \notin DirFiles(fs, call.push_location)
        /\ (call.manifests = <<>> => DirFiles(fs, call.push_location) = {})

\* a call with two manifests on a directory that held a stale file and an
\* outdated file of one of the manifests
C1_Witness ==
    /\ call.fn = "_sync_manifests"
    /\ Len(call.manifests) = 2
    /\ DistinctNames(call.manifests)
    /\ \E p \in DirFiles(call.before, call.push_location) :
           p \notin DirFiles(fs, call.push_location)
    /\ \E p \in DirFiles(call.before, call.push_location) :
           /\ p \in DirFiles(fs, call.push_location)
           /\ call.before[call.push_location][p] # fs[call.push_location][p]

\* the environment of the relation-broken hook of application P on endpoint C
Departing(env, P, C) ==
    /\ DOMAIN env = {"JUJU_REMOTE_APP", "JUJU_RELATION", "JUJU_HOOK_NAME"}
    /\ env["JUJU_REMOTE_APP"] = P
    /\ env["JUJU_RELATION"] = C
    /\ env["JUJU_HOOK_NAME"] = C \o "-relation-broken"

\* the list a databag holds: the one whose encoding is stored in it, each
\* of its documents written as four tokens between the brackets
SentIn(data) ==
    IF KUBERNETES_MANIFESTS_FIELD \in DOMAIN data
    THEN CHOOSE l \in [1..((Len(data[KUBERNETES_MANIFESTS_FIELD]) - 2) \div 4) -> Docs] :
             json_dumps(l) = data[KUBERNETES_MANIFESTS_FIELD]
    ELSE <<>>

\* the lists of the relations from id r on that are on endpoint C and not of
\* application P, one after the other
RECURSIVE OthersFrom(_, _, _, _)
OthersFrom(rels, r, C, P) ==
    IF r \notin DOMAIN rels THEN <<>>
    ELSE (IF rels[r].name = C /\ rels[r].app # P THEN SentIn(rels[r].data) ELSE <<>>)
             \o OthersFrom(rels, r + 1, C, P)

\* C2: when the environment names application P as departing from category C
\* (JUJU_REMOTE_APP = P, JUJU_RELATION = C, JUJU_HOOK_NAME = C-relation-broken),
\* get_manifests() of C returns the manifests of every channel of C of another
\* application and none read from a channel of P.
C2_DepartingExcluded ==
    \A P \in Apps, C \in {SECRETS_RELATION_NAME, ROLES_RELATION_NAME} :
        (call.fn = "get_manifests" /\ call.relation_name = C /\ Departing(call.env, P, C))
            => call.ret = OthersFrom(relations, 1, C, P)

\* p1 departs from secrets while p1 and p2 both hold manifests there
C2_Witness ==
    /\ call.fn = "get_manifests"
    /\ call.relation_name = SECRETS_RELATION_NAME
    /\ Departing(call.env, "p1", SECRETS_RELATION_NAME)
    /\ \E r \in DOMAIN relations :
           /\ relations[r].name = SECRETS_RELATION_NAME
           /\ relations[r].app = "p1"
           /\ SentIn(relations[r].data) # <<>>
    /\ \E r \in DOMAIN relations :
           /\ relations[r].name = SECRETS_RELATION_NAME
           /\ relations[r].app = "p2"
           /\ SentIn(relations[r].data) # <<>>
           /\ call.ret = SentIn(relations[r].data)

\* C4: _manifests_valid(manifests) is False exactly when two entries of the
\* list have the same metadata.name, and True for the empty list.
C4_ValidIffDistinct ==
    call.fn = "_manifests_valid" =>
        /\ (call.ret = FALSE) <=>
               (\E i, j \in 1..Len(call.manifests) :
                   i < j /\ call.manifests[i].metadata.name = call.manifests[j].metadata.name)
        /\ (call.manifests = <<>> => call.ret = TRUE)

\* a list of three whose first and last entries share a name is rejected
C4_Witness ==
    /\ call.fn = "_manifests_valid"
    /\ Len(call.manifests) = 3
    /\ call.manifests[1].metadata.name = call.manifests[3].metadata.name
    /\ call.manifests[1].metadata.name # call.manifests[2].metadata.name
    /\ call.ret = FALSE

\* the last hook was of the dispatcher unit, leader with its container
\* reachable, and ran a pass that no uncaught exception ended
PassRan ==
    /\ hook.unit = "dispatcher"
    /\ hook.handler \in {"_on_event", "_on_upgrade_charm"}
    /\ hook.leader
    /\ canConnect
    /\ hook.exc = "none"

FilesOf(dir, ms) == {FileOf(dir, ms[i]) : i \in 1..Len(ms)}

\* the list relation r holds, nothing if it is not open
ListOf(rels, r) == IF rels[r] = NoRelation THEN <<>> ELSE SentIn(rels[r].data)

SecretsDir == DISPATCHER_RESOURCES_PATH \o "/secrets"

\* C3: with the dispatcher leader and its container reachable, when p1 and p2
\* each hold a non-empty list in secrets and all their names are distinct, a
\* pass leaves in the secrets directory exactly the files of both, and the
\* pass of the relation-broken hook of one of them leaves exactly the files of
\* the other: the files of the departing one are removed and not re-created.
C3_UnionThenRemainder ==
    [][ ( /\ PassRan'
          /\ ListOf(relations, 1) # <<>>
          /\ ListOf(relations, 2) # <<>>
          /\ DistinctNames(ListOf(relations, 1) \o ListOf(relations, 2)) )
        => /\ hook'.broken \notin {1, 2} =>
                DirFiles(fs', SecretsDir) = FilesOf(SecretsDir, ListOf(relations, 1))
                                              \cup FilesOf(SecretsDir, ListOf(relations, 2))
           /\ hook'.broken = 1 =>
                /\ DirFiles(fs', SecretsDir) = FilesOf(SecretsDir, ListOf(relations, 2))
                /\ DirFiles(fs', SecretsDir) \cap FilesOf(SecretsDir, ListOf(relations, 1)) = {}
           /\ hook'.broken = 2 =>
                /\ DirFiles(fs', SecretsDir) = FilesOf(SecretsDir, ListOf(relations, 1))
                /\ DirFiles(fs', SecretsDir) \cap FilesOf(SecretsDir, ListOf(relations, 2)) = {}
      ]_vars

\* the pass of p1's relation-broken hook has left the files of p2 only
C3_Witness ==
    /\ PassRan
    /\ hook.broken = 1
    /\ ListOf(relations, 2) # <<>>
    /\ DirFiles(fs, SecretsDir) = FilesOf(SecretsDir, ListOf(relations, 2))
    /\ (SecretsDir \o "/a.yaml") \notin DirFiles(fs, SecretsDir)

\* the lists of the relations on endpoint C other than relation b, merged
RECURSIVE MergedExcept(_, _, _, _)
MergedExcept(rels, r, C, b) ==
    IF r \notin DOMAIN rels THEN <<>>
    ELSE (IF rels[r].name = C /\ r # b THEN ListOf(rels, r) ELSE <<>>)
             \o MergedExcept(rels, r + 1, C, b)

\* a directory of the container: whether it exists and what it holds
DirOf(fsys, dir) ==
    [exists |-> dir \in DOMAIN fsys,
     files |-> IF dir \in DOMAIN fsys THEN fsys[dir] ELSE <<>>]

Stepped(tr, C, step) == \E i \in 1..Len(tr) : tr[i] = [cat |-> C, step |-> step]

\* C5: when the merged list of a category holds a name twice, the pass ends
\* Blocked by the ErrorWithStatus of _update_manifests, _sync_manifests is not
\* called for that category, and the category's directory is as it was: no
\* file created, overwritten or removed.
C5_DuplicateBlocksBeforeSync ==
    [][ PassRan' =>
            \A C \in {SECRETS_RELATION_NAME, ROLES_RELATION_NAME} :
                ~DistinctNames(MergedExcept(relations, 1, C, hook'.broken))
                    => /\ status' = Status("BlockedStatus",
                                           "Failed to process invalid manifest. See debug logs.")
                       /\ ~Stepped(trace', C, "_sync_manifests")
                       /\ DirOf(fs', Folder(C)) = DirOf(fs, Folder(C))
      ]_vars

\* a pass ended Blocked on secrets while the secrets directory held files
C5_Witness ==
    /\ PassRan
    /\ status.type = "BlockedStatus"
    /\ ~DistinctNames(MergedExcept(relations, 1, SECRETS_RELATION_NAME, 0))
    /\ Stepped(trace, SECRETS_RELATION_NAME, "_manifests_valid")
    /\ DirFiles(fs, SecretsDir) # {}

\* C6: send_data on a unit that is not the leader leaves the databag of every
\* relation as it was and raises nothing.
C6_NonLeaderSendsNothing ==
    [][ (hook'.unit = "producer" /\ ~hook'.leader)
            => (relations' = relations /\ hook'.exc = "none") ]_vars

\* a non-leader unit of p1 called send_data while p1's relation held nothing
C6_Witness ==
    /\ hook.unit = "producer"
    /\ ~hook.leader
    /\ relations[1] # NoRelation
    /\ relations[1].data = <<>>

\* C7 as stated: a hook of a non-leader dispatcher unit that would run a pass
\* ends with status Waiting and without an uncaught exception.
C7_NonLeaderWaits ==
    (hook.unit = "dispatcher" /\ ~hook.leader
        /\ hook.handler \in {"_on_event", "_on_upgrade_charm"})
        => (status.type = "WaitingStatus" /\ hook.exc = "none")

\* C8: a step changes a file of the container only in a hook of the
\* dispatcher unit while it is leader, and changes the databag of a relation
\* only in send_data on a leader unit of the producer.
C8_OnlyLeadersWrite ==
    [][ /\ fs' # fs => (hook'.unit = "dispatcher" /\ hook'.leader)
        /\ \A r \in RelIds :
               (relations[r] # NoRelation /\ relations'[r] # NoRelation
                   /\ relations'[r].data # relations[r].data)
                   => (hook'.unit = "producer" /\ hook'.leader)
      ]_vars

\* a hook that runs the pass came on a non-leader dispatcher unit while p1's
\* list was not in the container, and left the container without it
C8_Witness ==
    /\ hook.unit = "dispatcher"
    /\ ~hook.leader
    /\ hook.handler = "_on_event"
    /\ ListOf(relations, 1) # <<>>
    /\ DirFiles(fs, SecretsDir) = {}

\* C9: a pass on the leader while the container is not reachable ends with
\* status Waiting, runs no step of any category and leaves every directory
\* as it was.
C9_UnreachableContainerWaits ==
    [][ ( /\ hook'.unit = "dispatcher"
          /\ hook'.handler \in {"_on_event", "_on_upgrade_charm"}
          /\ hook'.leader
          /\ ~canConnect'
          /\ hook'.exc = "none" )
        => /\ status' = Status("WaitingStatus", "Container is not ready")
           /\ \A i \in 1..Len(trace') : trace'[i].cat = ""
           /\ fs' = fs
      ]_vars

\* a pass found the container unreachable while it held files that p1's
\* relation no longer asks for
C9_Witness ==
    /\ hook.unit = "dispatcher"
    /\ hook.handler = "_on_event"
    /\ hook.leader
    /\ ~canConnect
    /\ hook.exc = "none"
    /\ status.type = "WaitingStatus"
    /\ DirFiles(fs, SecretsDir) # {}
    /\ ListOf(relations, 1) = <<>>

\* the steps of a pass in their order: the three steps of secrets, then of
\* service-accounts, pod-defaults, roles and role-bindings
PassSteps ==
    << [cat |-> "secrets", step |-> "get_manifests"],
       [cat |-> "secrets", step |-> "_manifests_valid"],
       [cat |-> "secrets", step |-> "_sync_manifests"],
       [cat |-> "service-accounts", step |-> "get_manifests"],
       [cat |-> "service-accounts", step |-> "_manifests_valid"],
       [cat |-> "service-accounts", step |-> "_sync_manifests"],
       [cat |-> "pod-defaults", step |-> "get_manifests"],
       [cat |-> "pod-defaults", step |-> "_manifests_valid"],
       [cat |-> "pod-defaults", step |-> "_sync_manifests"],
       [cat |-> "roles", step |-> "get_manifests"],
       [cat |-> "roles", step |-> "_manifests_valid"],
       [cat |-> "roles", step |-> "_sync_manifests"],
       [cat |-> "role-bindings", step |-> "get_manifests"],
       [cat |-> "role-bindings", step |-> "_manifests_valid"],
       [cat |-> "role-bindings", step |-> "_sync_manifests"] >>

PositionOf(e) == CHOOSE k \in 1..Len(PassSteps) : PassSteps[k] = e

\* C10: in every pass of every hook the categories are processed in the order
\* secrets, service-accounts, pod-defaults, roles, role-bindings, and the
\* merge, the validation and the sync of a category come before the first
\* step of the next.
C10_FixedCategoryOrder ==
    \A i \in 1..Len(trace) :
        trace[i].cat # "" =>
            /\ i > 1
            /\ \E k \in 1..Len(PassSteps) : PassSteps[k] = trace[i]
            /\ IF trace[i - 1].cat = ""
               THEN trace[i - 1].step = "_on_event" /\ PositionOf(trace[i]) = 1
               ELSE PositionOf(trace[i]) = PositionOf(trace[i - 1]) + 1

\* a relation-broken hook ran a whole pass, all five categories
C10_Witness ==
    /\ hook.unit = "dispatcher"
    /\ hook.broken # 0
    /\ Len(trace) = 1 + Len(PassSteps)
    /\ trace[Len(trace)] = [cat |-> "role-bindings", step |-> "_sync_manifests"]

\* the categories after category C in the order of a pass
LaterThan(C) ==
    {PassSteps[k].cat : k \in {j \in 1..Len(PassSteps) :
        \E i \in 1..Len(PassSteps) : PassSteps[i].cat = C /\ i < j /\ PassSteps[j].cat # C}}

\* C11: when the validation of category k fails in a pass, the status becomes
\* Blocked, no step of a category after k is taken in that pass and the
\* directory of every category after k is as it was before the pass.
C11_FailureStopsLaterCategories ==
    [][ PassRan' =>
            \A k \in {SECRETS_RELATION_NAME, ROLES_RELATION_NAME} :
                ~DistinctNames(MergedExcept(relations, 1, k, hook'.broken))
                    => /\ status'.type = "BlockedStatus"
                       /\ \A C \in LaterThan(k) :
                              /\ \A i \in 1..Len(trace') : trace'[i].cat # C
                              /\ DirOf(fs', Folder(C)) = DirOf(fs, Folder(C))
      ]_vars

RolesDir == DISPATCHER_RESOURCES_PATH \o "/roles"

\* a pass failed on secrets while the list of the roles relation was not in
\* the roles directory, and left it out
C11_Witness ==
    /\ PassRan
    /\ hook.broken = 0
    /\ status.type = "BlockedStatus"
    /\ ~DistinctNames(MergedExcept(relations, 1, SECRETS_RELATION_NAME, 0))
    /\ ListOf(relations, 3) # <<>>
    /\ DirFiles(fs, RolesDir) = {}

\* C12 as stated: a collision in one category aborts that category only, so
\* a pass that finds one in secrets still brings the roles directory to the
\* list of the roles relation.
C12_OtherCategoriesProceed ==
    ( /\ PassRan
      /\ hook.broken = 0
      /\ ~DistinctNames(MergedExcept(relations, 1, SECRETS_RELATION_NAME, 0))
      /\ DistinctNames(MergedExcept(relations, 1, ROLES_RELATION_NAME, 0)) )
    => DirFiles(fs, RolesDir)
           = FilesOf(RolesDir, MergedExcept(relations, 1, ROLES_RELATION_NAME, 0))

\* directory dir holds exactly the files of the manifests ms, each with the
\* serialization of its manifest
HoldsExactly(fsys, dir, ms) ==
    /\ DirFiles(fsys, dir) = FilesOf(dir, ms)
    /\ \A i \in 1..Len(ms) : fsys[dir][FileOf(dir, ms[i])] = yaml_dump(ms[i])

\* C13: when a pass fails at category k, what it wrote and removed for the
\* categories before k stays: after a pass that fails at roles the secrets
\* directory holds exactly the files of the secrets list of that pass.
C13_EarlierCategoriesStay ==
    ( /\ PassRan
      /\ DistinctNames(MergedExcept(relations, 1, SECRETS_RELATION_NAME, 0))
      /\ ~DistinctNames(MergedExcept(relations, 1, ROLES_RELATION_NAME, 0)) )
    => /\ status.type = "BlockedStatus"
       /\ Stepped(trace, SECRETS_RELATION_NAME, "_sync_manifests")
       /\ HoldsExactly(fs, SecretsDir, MergedExcept(relations, 1, SECRETS_RELATION_NAME, 0))

\* a pass wrote the secrets of p1 and then failed at roles
C13_Witness ==
    /\ PassRan
    /\ status.type = "BlockedStatus"
    /\ trace[Len(trace)] = [cat |-> ROLES_RELATION_NAME, step |-> "_manifests_valid"]
    /\ ListOf(relations, 1) # <<>>
    /\ HoldsExactly(fs, SecretsDir, ListOf(relations, 1))

\* the merged list of every category is valid
AllValid(rels, b) ==
    \A C \in {SECRETS_RELATION_NAME, ROLES_RELATION_NAME} :
        DistinctNames(MergedExcept(rels, 1, C, b))

\* the steps a hook took from its last handler on
RECURSIVE LastHandler(_)
LastHandler(tr) ==
    IF tr = <<>> THEN <<>>
    ELSE IF tr[Len(tr)].cat = "" THEN <<tr[Len(tr)]>>
    ELSE Append(LastHandler(SubSeq(tr, 1, Len(tr) - 1)), tr[Len(tr)])

WholePass == <<[cat |-> "", step |-> "_on_event"]>> \o PassSteps

\* C14: when the unit is leader, the container is reachable and the merged
\* list of each category is valid, the pass takes the three steps of all
\* five categories and ends with status Active.
C14_ValidPassEndsActive ==
    (PassRan /\ AllValid(relations, 0))
        => (status = ActiveStatus /\ LastHandler(trace) = WholePass)

\* a pass over the lists of p1 and p2 ended Active with the files of both
C14_Witness ==
    /\ PassRan
    /\ status = ActiveStatus
    /\ Len(ListOf(relations, 1) \o ListOf(relations, 2)) = 2
    /\ Cardinality(DirFiles(fs, SecretsDir)) = 2

\* the last handler of the last hook was a pass on the leader with the
\* container reachable, and no uncaught exception ended the hook
PassEndedIn(h, can_connect, tr) ==
    /\ h.unit = "dispatcher"
    /\ h.leader
    /\ can_connect
    /\ h.exc = "none"
    /\ LastHandler(tr) # <<>>
    /\ LastHandler(tr)[1].step = "_on_event"

PassEnded == PassEndedIn(hook, canConnect, trace)

AllCategories ==
    {"secrets", "service-accounts", "pod-defaults", "roles", "role-bindings"}

\* C15: when a pass ends by setting the status to Active, the directory of
\* each of the five categories holds exactly the files <name>.yaml of the
\* category's merged list without the departing application, and the pass
\* has synchronised every category.
C15_ActiveMeansSynchronised ==
    (PassEnded /\ status = ActiveStatus)
        => \A C \in AllCategories :
              /\ Stepped(LastHandler(trace), C, "_sync_manifests")
              /\ DirFiles(fs, DISPATCHER_RESOURCES_PATH \o "/" \o C)
                     = FilesOf(DISPATCHER_RESOURCES_PATH \o "/" \o C,
                               MergedExcept(relations, 1, C, 0))

\* the pass of p1's relation-broken hook ended Active with files in secrets
C15_Witness ==
    /\ PassEnded
    /\ status = ActiveStatus
    /\ hook.broken = 1
    /\ DirFiles(fs, SecretsDir) # {}

\* C16: Blocked and Waiting do not last: from a state with status Blocked or
\* Waiting, a hook whose last handler is a pass on the leader, with the
\* container reachable and every merged list valid, takes the whole pass from
\* the leadership check on and ends with status Active.
C16_BlockedAndWaitingNotAbsorbing ==
    [][ ( /\ status.type \in {"BlockedStatus", "WaitingStatus"}
          /\ PassEndedIn(hook', canConnect', trace')
          /\ AllValid(relations, hook'.broken) )
        => (status' = ActiveStatus /\ LastHandler(trace') = WholePass)
      ]_vars

\* the pass deferred while the container was unreachable ran again in the
\* hook that found it reachable and ended Active with files written
C16_Witness ==
    /\ PassEnded
    /\ hook.handler = ""
    /\ status = ActiveStatus
    /\ DirFiles(fs, SecretsDir) # {}

\* C17: _sync_manifests run twice in a row with the same valid list leaves
\* the directory with the same file names and the same file contents as the
\* first run left it, whatever the directory held at the start.
C17_SyncIdempotent ==
    (call.fn = "_sync_manifests" /\ call.run = 2 /\ DistinctNames(call.manifests))
        => DirOf(fs, call.push_location) = DirOf(call.before, call.push_location)

\* the second run on two manifests, the first run having started from a
\* directory with files
C17_Witness ==
    /\ call.fn = "_sync_manifests"
    /\ call.run = 2
    /\ Len(call.manifests) = 2
    /\ DistinctNames(call.manifests)
    /\ Cardinality(DirFiles(fs, call.push_location)) = 2
    /\ fs = call.before

\* C18 as stated: the second run of _sync_manifests with the same list, on
\* the directory the first run left, performs no push and no removal.
C18_SecondRunWritesNothing ==
    (call.fn = "_sync_manifests" /\ call.run = 2 /\ DistinctNames(call.manifests))
        => trace = <<>>

\* C19 as stated: for any list of items a leader sends with send_data, what
\* get_manifests decodes from the databag is the list of the items'
\* manifests, the same elements in the same order.
C19_CodecRoundTrip ==
    (call.fn = "get_manifests" /\ call.is_leader)
        => call.ret = [i \in 1..Len(call.manifest_items) |-> call.manifest_items[i].manifest]

\* the relations with a databag that holds the field
WithField(rels) ==
    [r \in DOMAIN rels |->
        IF KUBERNETES_MANIFESTS_FIELD \in DOMAIN rels[r].data THEN rels[r] ELSE NoRelation]

\* C20: a relation whose databag does not hold the field adds nothing to what
\* get_manifests returns and does not make it fail: the result is the one
\* for the relations that hold the field, and [] when no relation of the
\* endpoint holds it.
C20_AbsentPayloadIsEmpty ==
    call.fn = "get_manifests" =>
        /\ "JUJU_REMOTE_APP" \notin DOMAIN call.env
               => call.ret = OthersFrom(WithField(relations), 1, call.relation_name, None)
        /\ (\A r \in DOMAIN relations :
                relations[r].name = call.relation_name
                    => KUBERNETES_MANIFESTS_FIELD \notin DOMAIN relations[r].data)
               => call.ret = <<>>

\* secrets has a relation that sent nothing yet next to one that sent a
\* list, and get_manifests returned that list
C20_Witness ==
    /\ call.fn = "get_manifests"
    /\ call.relation_name = SECRETS_RELATION_NAME
    /\ "JUJU_REMOTE_APP" \notin DOMAIN call.env
    /\ \E r, q \in DOMAIN relations :
           /\ relations[r].name = SECRETS_RELATION_NAME
           /\ relations[r].data = <<>>
           /\ relations[q].name = SECRETS_RELATION_NAME
           /\ relations[q].data # <<>>
           /\ call.ret = SentIn(relations[q].data)
           /\ call.ret # <<>>

\* C21: get_manifests returns the lists of the relations of the endpoint that
\* are not skipped, decoded and put one after the other in the order the
\* relations are iterated, each list in its own order; a call repeated on the
\* same relations returns the same list in the same order.
C21_ConcatenationInChannelOrder ==
    call.fn = "get_manifests" =>
        /\ call.ret = OthersFrom(relations, 1, call.relation_name,
                                 get_name_of_breaking_app(call.env, call.relation_name))
        /\ call.ret = call.first

\* the second call on two secrets relations that hold different lists returned
\* the three manifests, those of the first relation first
C21_Witness ==
    /\ call.fn = "get_manifests"
    /\ call.count = 2
    /\ call.relation_name = SECRETS_RELATION_NAME
    /\ relations[1].name = SECRETS_RELATION_NAME
    /\ relations[2].name = SECRETS_RELATION_NAME
    /\ SentIn(relations[1].data) # SentIn(relations[2].data)
    /\ Len(call.ret) = 3
    /\ call.ret = SentIn(relations[1].data) \o SentIn(relations[2].data)

\* the charm's _on_event ran in the last hook
EventRan(tr) == Stepped(tr, "", "_on_event")

\* C22 as stated: the hook of every change of a category's relations, the
\* opening of a relation included, emits updated and so runs a pass on the
\* leader.
C22_EveryChannelChangeNotifies ==
    (hook.unit = "dispatcher" /\ hook.leader /\ call.fn \in RelationEvents)
        => EventRan(trace)

\* C22 amended: the provider emits updated in the relation-changed and the
\* relation-broken hooks of its relations, and each notification runs
\* _on_event, so on the leader these hooks run a pass; the relation-created
\* hook emits nothing and runs no pass; on a unit that is not the leader the
\* charm is not constructed and nothing is emitted.
C22_ChangedAndBrokenNotify ==
    (hook.unit = "dispatcher" /\ call.fn \in RelationEvents) =>
        /\ (hook.leader /\ call.fn \in {"-relation-changed", "-relation-broken"})
               => (EventRan(trace) /\ Stepped(trace, SECRETS_RELATION_NAME, "get_manifests"))
        /\ call.fn = "-relation-created" => ~EventRan(trace)
        /\ ~hook.leader => (trace = <<>> /\ hook.exc = "ErrorWithStatus")

\* the relation-broken hook of p1's secrets relation ran a pass that removed
\* its files and left those of p2
C22_Witness ==
    /\ hook.unit = "dispatcher"
    /\ hook.leader
    /\ call = [fn |-> "-relation-broken", relation |-> 1, denied |-> ""]
    /\ EventRan(trace)
    /\ ListOf(relations, 2) # <<>>
    /\ DirFiles(fs, SecretsDir) = FilesOf(SecretsDir, ListOf(relations, 2))

\* the environment has the variable set to a value that is not empty
IsSet(env, key) == key \in DOMAIN env /\ env[key] # ""

\* the three conditions: a remote application is named, the event's relation
\* is C and the hook is C-relation-broken
AllThree(env, C) ==
    /\ IsSet(env, "JUJU_REMOTE_APP")
    /\ "JUJU_RELATION" \in DOMAIN env
    /\ env["JUJU_RELATION"] = C
    /\ "JUJU_HOOK_NAME" \in DOMAIN env
    /\ env["JUJU_HOOK_NAME"] = C \o "-relation-broken"

\* C23: get_name_of_breaking_app(C) returns the name of the remote
\* application exactly when a remote application is named, the relation of
\* the event is C and the hook is C-relation-broken; in every other case it
\* returns None and get_manifests leaves no relation of C out.
C23_BreakingAppIffAllThree ==
    call.fn = "get_manifests" =>
        IF AllThree(call.env, call.relation_name)
        THEN call.breaking = call.env["JUJU_REMOTE_APP"]
        ELSE /\ call.breaking = None
             /\ call.ret = OthersFrom(relations, 1, call.relation_name, None)

\* p1 is the remote application of a secrets hook that is not relation-broken:
\* no application is named, and the list of p1's relation is returned
C23_Witness ==
    /\ call.fn = "get_manifests"
    /\ call.relation_name = SECRETS_RELATION_NAME
    /\ call.env = [JUJU_REMOTE_APP |-> "p1", JUJU_RELATION |-> SECRETS_RELATION_NAME,
                   JUJU_HOOK_NAME |-> SECRETS_RELATION_NAME \o "-relation-changed"]
    /\ call.breaking = None
    /\ relations[1].name = SECRETS_RELATION_NAME
    /\ relations[1].app = "p1"
    /\ call.ret = SentIn(relations[1].data)
    /\ call.ret # <<>>

\* the relations of the wrapper's endpoint on the side of the sending unit
SendsOn(rels, r, app, relation_name) ==
    rels[r].name = relation_name /\ rels[r].app = app

\* C24: after send_data(items) on the leader, the payload of every relation
\* of the endpoint on the producer's side is the encoding of the whole list
\* items and of nothing else, whatever the payload was before; every other
\* relation is as it was.
C24_PayloadReplacedWhole ==
    (call.fn = "send_data" /\ call.is_leader) =>
        \A r \in DOMAIN relations :
            IF SendsOn(call.before, r, call.app, call.relation_name)
            THEN /\ DOMAIN relations[r].data = {KUBERNETES_MANIFESTS_FIELD}
                 /\ relations[r].data[KUBERNETES_MANIFESTS_FIELD]
                        = json_dumps([i \in 1..Len(call.manifest_items) |->
                                         call.manifest_items[i].manifest])
                 /\ SentIn(relations[r].data)
                        = [i \in 1..Len(call.manifest_items) |-> call.manifest_items[i].manifest]
            ELSE relations[r] = call.before[r]

\* the leader sent one manifest on two relations that held different lists,
\* neither with that manifest: both hold the new list only
C24_Witness ==
    /\ call.fn = "send_data"
    /\ call.is_leader
    /\ Len(call.manifest_items) = 1
    /\ \A r \in {1, 2} :
           /\ SendsOn(call.before, r, "p1", call.relation_name)
           /\ Len(SentIn(call.before[r].data)) = r
           /\ \A i \in 1..r : SentIn(call.before[r].data)[i] # call.manifest_items[1].manifest
           /\ SentIn(relations[r].data) = <<call.manifest_items[1].manifest>>

\* the relations of the requirer's endpoint that are open
OfRequirer(rels, req) == {r \in DOMAIN rels : rels[r].name = req.relation_name}

\* the databag holds the encoding of the requirer's manifests and nothing else
HoldsListOf(data, req) ==
    /\ DOMAIN data = {KUBERNETES_MANIFESTS_FIELD}
    /\ data[KUBERNETES_MANIFESTS_FIELD]
           = json_dumps([i \in 1..Len(req.manifests_items) |-> req.manifests_items[i].manifest])

\* C25: for a KubernetesManifestsRequirer, whichever of relation-created and
\* leader-elected comes first, once the relation is open and the unit is the
\* leader the payload of the relation is the encoding of the requirer's
\* manifests; a relation created while the unit is not the leader is empty,
\* and stays as it is until the unit handles leader-elected.
C25_EitherOrderSends ==
    [][ \A r \in OfRequirer(relations', call) :
            IF leader' THEN HoldsListOf(relations'[r].data, call)
            ELSE relations'[r].data
                     = (IF relations[r] = NoRelation THEN <<>> ELSE relations[r].data)
      ]_vars

\* the relation was created before the unit was the leader, and the
\* leader-elected hook has written the list into it
C25_Witness ==
    /\ call.fn = "KubernetesManifestsRequirer"
    /\ call.manifests_items # <<>>
    /\ hook.handler = "leader-elected"
    /\ \E r \in OfRequirer(relations, call) : HoldsListOf(relations[r].data, call)

\* a hook of the dispatcher unit on the leader that no uncaught exception ended
LeaderHookEnded ==
    /\ hook.unit = "dispatcher"
    /\ hook.leader
    /\ hook.exc = "none"

\* the hook's own handler entered _on_event, and with the container
\* reachable went on to the first category
PassStarted ==
    /\ LastHandler(trace) # <<>>
    /\ LastHandler(trace)[1] = [cat |-> "", step |-> "_on_event"]
    /\ canConnect => Stepped(LastHandler(trace), SECRETS_RELATION_NAME, "get_manifests")

\* C26 as stated: install, upgrade, config change, updated and removal each
\* start a pass over the categories on the leader.
C26_EveryEventStartsPass ==
    ( /\ LeaderHookEnded
      /\ hook.handler \in {"_on_install", "_on_upgrade_charm", "_on_event", "_on_remove"} )
        => PassStarted

\* C26 amended: on the leader, the upgrade hook (once the K8S resources are
\* deployed), the config-changed hook and the hook of an updated notification
\* each run _on_event, which goes through the categories when the container
\* is reachable and ends Waiting when it is not; the handler of install only
\* deploys the K8S resources and the handler of removal only deletes them:
\* neither takes a step of a category.
C26_PassOnUpgradeConfigUpdated ==
    LeaderHookEnded =>
        /\ hook.handler \in {"_on_upgrade_charm", "_on_event"} =>
               /\ PassStarted
               /\ ~canConnect => status = Status("WaitingStatus", "Container is not ready")
        /\ hook.handler \in {"_on_install", "_on_remove"} =>
               LastHandler(trace) = <<[cat |-> "", step |-> hook.handler]>>

\* the install hook of the leader deployed the K8S resources and took no
\* step of a category
C26_Witness ==
    /\ LeaderHookEnded
    /\ hook.handler = "_on_install"
    /\ trace = <<[cat |-> "", step |-> "_on_install"]>>
    /\ status.type = "WaitingStatus"

\* C27 as stated: the remove hook runs a pass and then releases the
\* destination of every category, so that no category directory holds a file.
C27_RemoveReleasesDestinations ==
    (LeaderHookEnded /\ hook.handler = "_on_remove")
        => /\ Stepped(LastHandler(trace), SECRETS_RELATION_NAME, "get_manifests")
           /\ \A C \in AllCategories : DirFiles(fs, Folder(C)) = {}

\* C27 amended: on the leader the handler of removal deletes the charm's K8S
\* resources and ends with status Maintenance "K8S resources removed",
\* whatever the status was before; it takes no step of a category, and a
\* remove hook with no deferred event to run leaves every file of the
\* container as it was.
C27_RemoveOnlyDeletesK8s ==
    [][ ( /\ hook'.unit = "dispatcher"
          /\ hook'.handler = "_on_remove"
          /\ hook'.leader
          /\ hook'.exc = "none" )
        => /\ status' = Status("MaintenanceStatus", "K8S resources removed")
           /\ LastHandler(trace') = <<[cat |-> "", step |-> "_on_remove"]>>
           /\ deferred = <<>> => fs' = fs
      ]_vars

\* the remove hook came while secrets held a collision and the container
\* held files: the files are still there
C27_Witness ==
    /\ LeaderHookEnded
    /\ hook.handler = "_on_remove"
    /\ status = Status("MaintenanceStatus", "K8S resources removed")
    /\ ~DistinctNames(MergedExcept(relations, 1, SECRETS_RELATION_NAME, 0))
    /\ DirFiles(fs, SecretsDir) # {}

\* in the last hook the container refused the listing of the directory of
\* category C when _sync_manifests asked for it
ListingRefused(C) ==
    /\ hook.unit = "dispatcher"
    /\ call.fn \in RelationEvents
    /\ call.denied = Folder(C)
    /\ Stepped(trace, C, "_sync_manifests")

\* C28 as stated: when list_files fails during a category's sync for a reason
\* other than a missing directory, the pass ends with status Waiting and no
\* exception leaves the handler.
C28_RefusedListingWaits ==
    \A C \in {SECRETS_RELATION_NAME, ROLES_RELATION_NAME} :
        ListingRefused(C) => (status.type = "WaitingStatus" /\ hook.exc = "none")

\* a relation of category C holds a list with a document without metadata
HoldsNameless(rels, C) ==
    \E r \in DOMAIN rels :
        /\ rels[r].name = C
        /\ KUBERNETES_MANIFESTS_FIELD \in DOMAIN rels[r].data
        /\ \E k \in DOMAIN rels[r].data[KUBERNETES_MANIFESTS_FIELD] :
               rels[r].data[KUBERNETES_MANIFESTS_FIELD][k] = NoMetadata

\* C29 as stated: when the merged list of a category holds a document without
\* metadata.name, the pass that reaches the category ends with status Blocked,
\* no exception leaves the handler, and _sync_manifests is not called for the
\* category.
C29_NamelessDocumentBlocks ==
    \A C \in {SECRETS_RELATION_NAME, ROLES_RELATION_NAME} :
        ( /\ hook.unit = "dispatcher"
          /\ call.fn \in RelationEvents
          /\ Stepped(trace, C, "get_manifests")
          /\ HoldsNameless(relations, C) )
        => /\ status.type = "BlockedStatus"
           /\ hook.exc = "none"
           /\ ~Stepped(trace, C, "_sync_manifests")

\* C30: when the directory push_location does not exist, _sync_manifests
\* takes it to hold no files and does not fail: with the empty list it
\* returns with the container as it was, and with a list that is not empty
\* the directory is created and holds exactly the files of the manifests,
\* each with its serialization when the names are distinct; the other
\* directories are as they were.
C30_MissingDirectoryIsEmpty ==
    (call.fn = "_sync_manifests" /\ call.push_location \notin DOMAIN call.before) =>
        IF call.manifests = <<>>
        THEN fs = call.before /\ trace = <<>>
        ELSE /\ call.push_location \in DOMAIN fs
             /\ DirFiles(fs, call.push_location) = FilesOf(call.push_location, call.manifests)
             /\ DistinctNames(call.manifests)
                    => HoldsExactly(fs, call.push_location, call.manifests)
             /\ \A dir \in DOMAIN call.before : fs[dir] = call.before[dir]
             /\ \A i \in 1..Len(trace) : trace[i][1] = "push"

\* two manifests were synchronised into the roles directory, which did not
\* exist, in a container that held the secrets directory
C30_Witness ==
    /\ call.fn = "_sync_manifests"
    /\ call.push_location = RolesDir
    /\ DOMAIN call.before = {SecretsDir}
    /\ Len(call.manifests) = 2
    /\ DistinctNames(call.manifests)
    /\ HoldsExactly(fs, RolesDir, call.manifests)

\* the text of a document, in block style
TextOf(doc) ==
    <<Line(0, "data", doc.data)>>
        \o (IF HasName(doc)
            THEN <<Line(0, "metadata", ""), Line(2, "name", doc.metadata.name)>>
            ELSE <<>>)

\* the documents a manifest can be, with or without a name
ParsedDocs == Docs \cup {NamelessDoc(d) : d \in Contents}

\* the text is the text of a document
WellFormed(text) == \E d \in ParsedDocs : TextOf(d) = text

\* the document whose text it is
DocOfText(text) == CHOOSE d \in ParsedDocs : TextOf(d) = text

\* C31: KubernetesManifest(text) raises yaml.YAMLError exactly when the text
\* is not the YAML text of a document, and then nothing is sent: the
\* relations are as before the hook.  When every text is valid, the leader's
\* payload decodes to the documents of the texts, in order, each the parse
\* of its text.  No payload of any relation ever holds anything but parsed
\* documents.
C31_MalformedTextFailsAtConstruction ==
    call.fn = "_send_secret" =>
        /\ (hook.exc = "YAMLError")
               <=> (\E i \in DOMAIN call.texts : ~WellFormed(call.texts[i]))
        /\ hook.exc = "YAMLError" => relations = call.before
        /\ (hook.exc = "none" /\ hook.leader) =>
               \A r \in DOMAIN relations :
                   relations[r].name = call.relation_name =>
                       /\ Len(json_loads(DatabagGet(relations[r].data))) = Len(call.texts)
                       /\ \A i \in DOMAIN call.texts :
                              json_loads(DatabagGet(relations[r].data))[i]
                                  = DocOfText(call.texts[i])
        /\ \A r \in DOMAIN relations :
               \A i \in DOMAIN json_loads(DatabagGet(relations[r].data)) :
                   json_loads(DatabagGet(relations[r].data))[i] \in ParsedDocs

\* a leader built its items from a valid text and a text with an open quote:
\* the constructor raised and the payload that was there is still there
C31_Witness ==
    /\ call.fn = "_send_secret"
    /\ hook.leader
    /\ Len(call.texts) = 2
    /\ WellFormed(call.texts[1])
    /\ ~WellFormed(call.texts[2])
    /\ hook.exc = "YAMLError"
    /\ \E r \in DOMAIN relations :
           /\ relations[r].name = call.relation_name
           /\ relations[r].data # <<>>
           /\ relations = call.before

\* C33: in one call of _sync_manifests every remove_path comes before the
\* first push, the removed files are files that were in the directory and
\* are not the file of any manifest of the list, and the file of each
\* manifest is pushed, whether it was there before or not.
C33_RemovalsBeforeWrites ==
    call.fn = "_sync_manifests" =>
        /\ \A i, j \in 1..Len(trace) :
               (trace[i][1] = "push" /\ trace[j][1] = "remove_path") => j < i
        /\ \A i \in 1..Len(trace) :
               trace[i][1] = "remove_path" =>
                   /\ trace[i][2] \notin FilesOf(call.push_location, call.manifests)
                   /\ trace[i][2] \in DirFiles(call.before, call.push_location)
        /\ \A k \in 1..Len(call.manifests) :
               \E i \in 1..Len(trace) :
                   trace[i] = <<"push", FileOf(call.push_location, call.manifests[k])>>

\* a call removed a stale file and then wrote over a file that was there
C33_Witness ==
    /\ call.fn = "_sync_manifests"
    /\ Len(trace) = 2
    /\ trace[1][1] = "remove_path"
    /\ trace[2][1] = "push"
    /\ trace[2][2] \in DirFiles(call.before, call.push_location)
    /\ fs[call.push_location][trace[2][2]] # call.before[call.push_location][trace[2][2]]

\* the relations that are open, of the application of relation b, on another
\* endpoint than b's
OtherEndpointsOf(rels, b) ==
    {r \in Open(rels) : RelTable[r].app = RelTable[b].app /\ RelTable[r].name # RelTable[b].name}

\* C34: the pass of the relation-broken hook of application P on endpoint C
\* leaves P out of the list of C only: when it synchronises another endpoint
\* C' on which P has a relation, the directory of C' holds the file of every
\* manifest of P's list on C', with its serialization.
C34_TeardownScopedToCategory ==
    (PassEnded /\ hook.broken # 0) =>
        \A r \in OtherEndpointsOf(relations, hook.broken) :
            Stepped(LastHandler(trace), RelTable[r].name, "_sync_manifests") =>
                \A i \in 1..Len(ListOf(relations, r)) :
                    /\ FileOf(Folder(RelTable[r].name), ListOf(relations, r)[i])
                           \in DirFiles(fs, Folder(RelTable[r].name))
                    /\ fs[Folder(RelTable[r].name)]
                         [FileOf(Folder(RelTable[r].name), ListOf(relations, r)[i])]
                           = yaml_dump(ListOf(relations, r)[i])

\* the pass of the relation-broken hook of p1's secrets relation ended Active
\* and the roles directory holds the file of p1's roles list
C34_Witness ==
    /\ PassEnded
    /\ status = ActiveStatus
    /\ hook.broken = 1
    /\ relations[3] # NoRelation
    /\ Len(ListOf(relations, 3)) = 1
    /\ HoldsExactly(fs, RolesDir, ListOf(relations, 3))

\* the last hook was the relation-broken hook of a relation on the leader,
\* its pass could not run for the container and is deferred
TeardownDeferred ==
    /\ hook.unit = "dispatcher"
    /\ hook.broken # 0
    /\ hook.leader
    /\ hook.exc = "none"
    /\ ~canConnect
    /\ deferred # <<>>
    /\ status.type = "WaitingStatus"

\* C36: when the pass of a relation-broken hook was deferred for the
\* container, the next hook of the dispatcher unit that runs on the leader
\* with the container reachable, whatever its event, runs the deferred pass,
\* and the directory of every category it synchronises holds exactly the
\* files of the lists of the relations that are open then: no file of the
\* application that left is written or kept.
C36_DeferredTeardownStillExcludes ==
    [][ ( /\ TeardownDeferred
          /\ hook'.unit = "dispatcher"
          /\ hook'.leader
          /\ canConnect'
          /\ hook'.exc = "none" )
        => /\ EventRan(trace')
           /\ \A C \in {SECRETS_RELATION_NAME, ROLES_RELATION_NAME} :
                  Stepped(trace', C, "_sync_manifests")
                      => HoldsExactly(fs', Folder(C),
                                      MergedExcept(relations', 1, C, hook'.broken))
      ]_vars

\* a hook without a handler of its own ran the deferred pass after p1's
\* secrets relation was gone: the secrets directory holds the file of p2 only
C36_Witness ==
    /\ hook.unit = "dispatcher"
    /\ hook.handler = ""
    /\ hook.exc = "none"
    /\ EventRan(trace)
    /\ status = ActiveStatus
    /\ relations[1] = NoRelation
    /\ ListOf(relations, 2) # <<>>
    /\ HoldsExactly(fs, SecretsDir, ListOf(relations, 2))

\* the relations of endpoint C whose remote application is named P
ChannelsOf(rels, C, P) == {r \in DOMAIN rels : rels[r].name = C /\ rels[r].app = P}

\* the lists of the relations of endpoint C from id r on, but for the
\* relations in skipped, one after the other
RECURSIVE KeptFrom(_, _, _, _)
KeptFrom(rels, r, C, skipped) ==
    IF r \notin DOMAIN rels THEN <<>>
    ELSE (IF rels[r].name = C /\ r \notin skipped THEN SentIn(rels[r].data) ELSE <<>>)
             \o KeptFrom(rels, r + 1, C, skipped)

\* C37: in the relation-broken hook of application P on endpoint C,
\* get_manifests of C leaves out every relation of C whose remote application
\* is named P, however many there are, and no other relation: when all the
\* relations of C are P's it returns the empty list, and the list of every
\* relation of another application is read.  Outside such a hook no relation
\* is left out.
C37_EveryChannelOfTheNameSkipped ==
    call.fn = "get_manifests" =>
        /\ call.ret = KeptFrom(relations, 1, call.relation_name,
                               ChannelsOf(relations, call.relation_name, call.breaking))
        /\ \A P \in Apps :
               Departing(call.env, P, call.relation_name) => call.breaking = P
        /\ (\A P \in Apps : ~Departing(call.env, P, call.relation_name))
               => call.breaking = None

\* p1 has two relations on secrets, each with a list, and in the
\* relation-broken hook of p1 on secrets get_manifests returns nothing
C37_Witness ==
    /\ call.fn = "get_manifests"
    /\ call.relation_name = SECRETS_RELATION_NAME
    /\ Departing(call.env, "p1", SECRETS_RELATION_NAME)
    /\ ChannelsOf(relations, SECRETS_RELATION_NAME, "p1") = {1, 2}
    /\ SentIn(relations[1].data) # <<>>
    /\ SentIn(relations[2].data) # <<>>
    /\ call.ret = <<>>

\* the list of relation b and the lists of the other relations of its
\* endpoint have a name in common, and the others have distinct names
CollidesOnlyWithDeparting(rels, b) ==
    /\ rels[b] # NoRelation
    /\ DistinctNames(MergedExcept(rels, 1, rels[b].name, b))
    /\ \E i \in 1..Len(ListOf(rels, b)),
          j \in 1..Len(MergedExcept(rels, 1, rels[b].name, b)) :
           ListOf(rels, b)[i].metadata.name
               = MergedExcept(rels, 1, rels[b].name, b)[j].metadata.name

\* C38: the validity check is made on the list without the breaking
\* application: when the list of the relation that is broken shares a name
\* with the lists of the other relations of its endpoint, and these are
\* valid among themselves, the pass of the relation-broken hook
\* synchronises the endpoint, whose directory then holds exactly the files
\* of the other relations, the shared name with the remaining application's
\* serialization, and the status is not Blocked unless another endpoint's
\* list is invalid.
C38_ValidationAfterFiltering ==
    [][ ( /\ PassEndedIn(hook', canConnect', trace')
          /\ hook'.broken # 0
          /\ CollidesOnlyWithDeparting(relations, hook'.broken)
          /\ Stepped(trace', relations[hook'.broken].name, "get_manifests") )
        => /\ Stepped(trace', relations[hook'.broken].name, "_sync_manifests")
           /\ HoldsExactly(fs', Folder(relations[hook'.broken].name),
                           MergedExcept(relations, 1, relations[hook'.broken].name,
                                        hook'.broken))
           /\ AllValid(relations, hook'.broken) => status' = ActiveStatus
      ]_vars

\* after the relation-broken hook of p1's secrets relation the status is
\* Active and the secrets directory holds a.yaml with p2's document of name a
C38_Witness ==
    /\ PassEnded
    /\ hook.broken = 1
    /\ status = ActiveStatus
    /\ ListOf(relations, 2) = <<Doc("a", "y")>>
    /\ HoldsExactly(fs, SecretsDir, <<Doc("a", "y")>>)

\* the list of relation r holds a name twice
OwnDuplicate(rels, r) == rels[r] # NoRelation /\ ~DistinctNames(ListOf(rels, r))

\* relations r and q of one endpoint, each with distinct names, share a name
SharedName(rels, r, q) ==
    /\ r # q
    /\ rels[r] # NoRelation
    /\ rels[q] # NoRelation
    /\ rels[r].name = rels[q].name
    /\ DistinctNames(ListOf(rels, r))
    /\ DistinctNames(ListOf(rels, q))
    /\ ~DistinctNames(ListOf(rels, r) \o ListOf(rels, q))

\* the status of a pass that found a list invalid
BlockedInvalid == Status("BlockedStatus", "Failed to process invalid manifest. See debug logs.")

\* C39: a relation whose own list holds a name twice blocks its endpoint as
\* two relations that share a name do: in both cases every pass, for as
\* long as the lists are there, ends with status Blocked 'Failed to process
\* invalid manifest' and does not synchronise the endpoint.
C39_OwnDuplicateBlocks ==
    PassRan =>
        /\ \A r \in RelIds :
               OwnDuplicate(relations, r)
                   => /\ status = BlockedInvalid
                      /\ ~Stepped(trace, relations[r].name, "_sync_manifests")
        /\ \A r, q \in RelIds :
               SharedName(relations, r, q)
                   => /\ status = BlockedInvalid
                      /\ ~Stepped(trace, relations[r].name, "_sync_manifests")

\* a pass ended Blocked while p1 alone had a relation open, its list with
\* the name a twice, and the secrets directory was left without files
C39_Witness ==
    /\ PassRan
    /\ Open(relations) = {1}
    /\ OwnDuplicate(relations, 1)
    /\ status = BlockedInvalid
    /\ Stepped(trace, SECRETS_RELATION_NAME, "_manifests_valid")
    /\ DirFiles(fs, SecretsDir) = {}

\* the lists of two endpoints have a name in common
SameNameAcross(rels, C, D, b) ==
    \E i \in 1..Len(MergedExcept(rels, 1, C, b)), j \in 1..Len(MergedExcept(rels, 1, D, b)) :
        MergedExcept(rels, 1, C, b)[i].metadata.name
            = MergedExcept(rels, 1, D, b)[j].metadata.name

\* C40: the endpoints do not interfere.  A name that the lists of secrets and
\* of roles both hold is no collision: when each list is valid on its own
\* the pass ends Active.  The directory of an endpoint is changed by the
\* sync of that endpoint only: a pass that does not synchronise an endpoint
\* leaves its directory as it was, whatever it did to the others, and after
\* a pass that synchronises it the directory holds exactly the files of the
\* endpoint's own list.
C40_CategoriesIsolated ==
    [][ PassEndedIn(hook', canConnect', trace') =>
            /\ AllValid(relations, hook'.broken) => status' = ActiveStatus
            /\ \A C \in {SECRETS_RELATION_NAME, ROLES_RELATION_NAME} :
                   IF Stepped(trace', C, "_sync_manifests")
                   THEN HoldsExactly(fs', Folder(C),
                                     MergedExcept(relations, 1, C, hook'.broken))
                   ELSE DirOf(fs', Folder(C)) = DirOf(fs, Folder(C))
      ]_vars

\* a pass ended Active with the name a in the list of secrets and in the
\* list of roles: each directory holds its own a.yaml
C40_Witness ==
    /\ PassEnded
    /\ status = ActiveStatus
    /\ SameNameAcross(relations, SECRETS_RELATION_NAME, ROLES_RELATION_NAME, 0)
    /\ HoldsExactly(fs, SecretsDir, MergedExcept(relations, 1, SECRETS_RELATION_NAME, 0))
    /\ HoldsExactly(fs, RolesDir, MergedExcept(relations, 1, ROLES_RELATION_NAME, 0))
    /\ DirFiles(fs, SecretsDir) # {}
    /\ DirFiles(fs, RolesDir) # {}

\* the last hook was a hook of the service-mesh relation that has a handler
MeshEventHandled ==
    /\ hook.unit = "dispatcher"
    /\ call.fn \in {"service-mesh-relation-changed", "service-mesh-relation-broken"}

\* C35: in a relation-changed or relation-broken hook of the service-mesh
\* relation on the leader, when the validation of the allow-all policy
\* raises RuntimeError or TypeError the handler ends with
\* GenericCharmRuntimeError, reconcile is not called and the status is as it
\* was; otherwise reconcile is called once, with the allow-all policy alone
\* as raw policies when the model has the service-mesh relation and with no
\* raw policy when it has not, and the status is Active.  In the remove hook
\* on the leader reconcile is called once, with no raw policy.
C35_PolicyReconciledByRelation ==
    /\ (MeshEventHandled /\ hook.leader) =>
           IF call.validate_exc # "none"
           THEN /\ hook.exc = "GenericCharmRuntimeError"
                /\ call.reconciled = <<>>
                /\ status = call.before
           ELSE /\ hook.exc = "none"
                /\ call.reconciled = <<IF call.enabled THEN <<AllowAllPolicy>> ELSE <<>>>>
                /\ status = ActiveStatus
    /\ (hook.unit = "dispatcher" /\ call.fn = "remove" /\ hook.leader)
           => call.reconciled = << <<>> >>

\* the leader handled relation-changed of the service-mesh relation from
\* status Blocked: one reconcile, with the allow-all policy, and status Active
C35_Witness ==
    /\ MeshEventHandled
    /\ hook.leader
    /\ call.fn = "service-mesh-relation-changed"
    /\ call.validate_exc = "none"
    /\ call.before.type = "BlockedStatus"
    /\ call.reconciled = << <<AllowAllPolicy>> >>
    /\ status = ActiveStatus

\* a relation that is open holds a list that is not empty
SomeListSent(rels) == \E r \in Open(rels) : ListOf(rels, r) # <<>>

\* the directory of each endpoint holds exactly the files of its list
AllReflected(fsys, rels) ==
    \A C \in {SECRETS_RELATION_NAME, ROLES_RELATION_NAME} :
        HoldsExactly(fsys, Folder(C), MergedExcept(rels, 1, C, 0))

\* C32: while the dispatcher has the library of the earlier generation and a
\* relation that is not being broken holds a list of documents, every pass
\* ends with an uncaught TypeError at get_manifests of that endpoint, whose
\* directory it does not synchronise.  The upgrade-charm hook of the later
\* generation never fails that way: when its K8S resources are applied and
\* the lists are valid it ends with status Active and every directory holds
\* the files of its list, and so does every pass after it, with the lists
\* as they are then.
C32_MismatchFailsUntilUpgraded ==
    /\ (hook.unit = "dispatcher" /\ call.lib = "0.1" /\ hook.handler = "_on_event") =>
           IF SomeListSent(relations)
           THEN /\ hook.exc = "TypeError"
                /\ ~Stepped(trace, SECRETS_RELATION_NAME, "_sync_manifests")
           ELSE hook.exc = "none" /\ status = ActiveStatus
    /\ (hook.unit = "dispatcher" /\ call.lib = "0.2") =>
           /\ hook.exc # "TypeError"
           /\ ( /\ hook.handler \in {"_on_upgrade_charm", "_on_event"}
                /\ hook.exc = "none"
                /\ AllValid(relations, 0) )
               => (status = ActiveStatus /\ AllReflected(fs, relations))

\* after the upgrade a pass ended Active with the file of p2's list, sent
\* while the dispatcher was failing, in the secrets directory
C32_Witness ==
    /\ hook.unit = "dispatcher"
    /\ call.lib = "0.2"
    /\ hook.handler = "_on_upgrade_charm"
    /\ hook.exc = "none"
    /\ status = ActiveStatus
    /\ ListOf(relations, 2) # <<>>
    /\ HoldsExactly(fs, SecretsDir, ListOf(relations, 2))

====
